---------------------------- MODULE Spec2Model ----------------------------
(***************************************************************************)
(* A model of the Amplitude bulk-annotation tool:                          *)
(*   - amplitude_api.py: AmplitudeAPIClient's constructor, test_connection,*)
(*     create_annotation, bulk_annotate and the context-manager protocol   *)
(*     (Spec), and the same client with the session's retry strategy seen  *)
(*     one HTTP attempt at a time (SpecRetry);                             *)
(*   - amplitude_bulk_annotator.py: the clients and workers the            *)
(*     application creates (SpecApp);                                      *)
(*   - utils/validators.py: extract_chart_ids and validate_chart_ids       *)
(*     (SpecValidators);                                                   *)
(*   - config_manager.py: ConfigManager.load_config (SpecConfig).          *)
(*                                                                         *)
(* The network is the environment: in Spec every request gets one          *)
(* transport outcome, the thing session.get / session.post hands back      *)
(* after the adapter's own retries (a response, or one of requests'        *)
(* exceptions).  Strings built with f-strings are modelled as tuples of    *)
(* their parts; strings that are scanned are sequences of characters.      *)
(***************************************************************************)
EXTENDS Integers, Sequences, FiniteSets, TLC

(***************************************************************************)
(* Bounds of the model.                                                    *)
(***************************************************************************)
MaxCharts == 3

(***************************************************************************)
(* constants.py                                                            *)
(***************************************************************************)
API_BASE_URL_US == "https://amplitude.com"
API_BASE_URL_EU == "https://analytics.eu.amplitude.com"
API_ANNOTATIONS_ENDPOINT == "/api/2/annotations"
VALID_REGIONS == {"US", "EU"}

(***************************************************************************)
(* Inputs the environment and the callers draw from.                       *)
(***************************************************************************)
None == "<None>"
RegionInputs == {"US", "EU", "eu", "APAC"}
ApiKeys == {"ak_1"}
SecretKeys == {"sk_1"}
ProjectIds == {4711}
Dates == {[year |-> 2024, month |-> 1, day |-> 5]}
Labels == {"release"}
DetailsInputs == {"", "v2 shipped"}
\* The chart IDs of a bulk run's list, and the chart_id arguments of a direct
\* create_annotation call.
ChartIdPool == {"abc123", "xyz789"}
ChartIdArgs == ChartIdPool \cup {"", None}
CallbackErrorText == "callback failed"

\* Response bodies the server may send with a status.
B_CREATED == "{success:true,annotation:{id:901}}"
B_CREATED_NO_ID == "{success:true,annotation:{}}"
B_CREATED_NO_ANNOTATION == "{success:true}"
B_CREATED_NULL_ANNOTATION == "{success:true,annotation:null}"
B_REFUSED == "{success:false}"
B_NO_SUCCESS_KEY == "{}"
B_JSON_LIST == "[]"
B_NOT_JSON == "<html>oops</html>"
Bodies200 == {B_CREATED, B_CREATED_NO_ID, B_CREATED_NO_ANNOTATION,
              B_CREATED_NULL_ANNOTATION, B_REFUSED, B_NO_SUCCESS_KEY,
              B_JSON_LIST, B_NOT_JSON}

\* Statuses a response can carry once the adapter's Retry has run: the
\* statuses of its status_forcelist end as a RetryError, never as a response.
STATUS_FORCELIST == {429, 500, 502, 503, 504}
FinalStatuses == {200, 401, 403, 404}

Response(status, body) == [kind |-> "response", status |-> status, body |-> body]
TransportError(kind) == [kind |-> kind, status |-> 0, body |-> ""]
NoOutcome == [kind |-> "none", status |-> 0, body |-> ""]

\* requests' exceptions: ConnectTimeout is both a ConnectionError and a Timeout.
TransportErrorKinds == {"ReadTimeout", "ConnectTimeout", "ConnectionError",
                        "RetryError", "Exception"}
Outcomes == {Response(200, b) : b \in Bodies200}
            \cup {Response(s, "denied") : s \in FinalStatuses \ {200}}
            \cup {TransportError(k) : k \in TransportErrorKinds}
\* The outcomes a bulk run draws from for each chart: a success pair, a failure
\* pair and the authentication error.
BulkOutcomes == {Response(200, B_CREATED), Response(401, "denied"),
                 TransportError("ReadTimeout")}

(***************************************************************************)
(* Formatting.                                                             *)
(***************************************************************************)
DigitStr(d) ==
    CASE d = 0 -> "0" [] d = 1 -> "1" [] d = 2 -> "2" [] d = 3 -> "3"
      [] d = 4 -> "4" [] d = 5 -> "5" [] d = 6 -> "6" [] d = 7 -> "7"
      [] d = 8 -> "8" [] d = 9 -> "9"

RECURSIVE ZeroPad(_, _)
ZeroPad(n, width) ==
    IF width = 0 THEN "" ELSE ZeroPad(n \div 10, width - 1) \o DigitStr(n % 10)

RECURSIVE IntStr(_)
IntStr(n) == IF n < 10 THEN DigitStr(n) ELSE IntStr(n \div 10) \o DigitStr(n % 10)

\* annotation_date.strftime("%Y-%m-%d")
strftime(d) ==
    ZeroPad(d.year, 4) \o "-" \o ZeroPad(d.month, 2) \o "-" \o ZeroPad(d.day, 2)

\* Python truthiness of an Optional[str].
Truthy(s) == s # None /\ s # ""

(***************************************************************************)
(* What a call hands back: a returned (success, message) pair or a raised  *)
(* exception.                                                              *)
(***************************************************************************)
Return(ok, msg) == [kind |-> "return", ok |-> ok, msg |-> msg, exc |-> "-"]
Raise(exc, msg) == [kind |-> "raise", ok |-> FALSE, msg |-> msg, exc |-> exc]
NoResult == [kind |-> "none", ok |-> FALSE, msg |-> <<>>, exc |-> "-"]

IsTimeout(exc) == exc \in {"ReadTimeout", "ConnectTimeout"}
IsConnectionError(exc) == exc \in {"ConnectionError", "ConnectTimeout"}
IsAmplitudeAPIError(exc) ==
    exc \in {"AmplitudeAPIError", "AmplitudeAuthenticationError",
             "AmplitudeConnectionError"}

(***************************************************************************)
(* AmplitudeAPIClient.__init__                                             *)
(***************************************************************************)
RegionAccepted(region) == region \in VALID_REGIONS

BaseUrlFor_AlwaysUS(region) == API_BASE_URL_US

BaseUrlFor(region) == IF region = "EU" THEN API_BASE_URL_EU ELSE API_BASE_URL_US

\* _set_auth_headers: "Basic " + base64(api_key + ":" + secret_key); base64 is
\* one-to-one, so the header is kept as the text it encodes.
AuthHeader(api_key, secret_key) == <<"Basic ", api_key, ":", secret_key>>

NoClient ==
    [made |-> FALSE, api_key |-> "", secret_key |-> "", region |-> "",
     base_url |-> "", auth |-> <<>>]

NewClient(api_key, secret_key, region) ==
    [made |-> TRUE, api_key |-> api_key, secret_key |-> secret_key,
     region |-> region, base_url |-> BaseUrlFor(region),
     auth |-> AuthHeader(api_key, secret_key)]

\* urljoin(self.base_url, API_ANNOTATIONS_ENDPOINT): both base URLs have an
\* empty path, so the endpoint replaces it.
urljoin(base, path) == base \o path

NoRequest == [method |-> "none", url |-> "", params |-> <<>>, auth |-> <<>>]

(***************************************************************************)
(* test_connection                                                         *)
(***************************************************************************)
TimeoutMessage_SameAsConnection == <<"Connection error - check your internet connection">>

TimeoutMessage == <<"Connection timeout - please try again">>

test_connection_result(o) ==
    IF o.kind = "response"
    THEN IF o.status = 200 THEN Return(TRUE, <<"Connection successful">>)
         ELSE IF o.status = 401
              THEN Return(FALSE, <<"Authentication failed - check your API keys">>)
              ELSE Return(FALSE, <<"API error: ", IntStr(o.status)>>)
    ELSE IF IsTimeout(o.kind) THEN Return(FALSE, TimeoutMessage)
    ELSE IF IsConnectionError(o.kind)
         THEN Return(FALSE, <<"Connection error - check your internet connection">>)
         ELSE Return(FALSE, <<"Unexpected error: ", o.kind>>)

(***************************************************************************)
(* create_annotation                                                       *)
(***************************************************************************)
Args(project_id, annotation_date, label, details, chart_id) ==
    [project_id |-> project_id, annotation_date |-> annotation_date,
     label |-> label, details |-> details, chart_id |-> chart_id]

NoArgs == Args(0, [year |-> 0, month |-> 0, day |-> 0], "", "", None)

DetailsParam(details) == IF Truthy(details) THEN [details |-> details] ELSE <<>>

ChartParam(chart_id) == IF Truthy(chart_id) THEN [chart_id |-> chart_id] ELSE <<>>

BuildParams(a) ==
    [app_id |-> a.project_id, date |-> strftime(a.annotation_date),
     label |-> a.label]
        @@ ChartParam(a.chart_id) @@ DetailsParam(a.details)

\* response.json(): the parsed body, or that it is no JSON.  An object is kept
\* as what the code reads of it: its 'success' value, whether 'annotation' is
\* absent, null or an object, and that object's 'id'.
Json(body) ==
    CASE body = B_CREATED ->
             [valid |-> TRUE, object |-> TRUE, success |-> "true",
              annotation |-> "object", id |-> "901"]
      [] body = B_CREATED_NO_ID ->
             [valid |-> TRUE, object |-> TRUE, success |-> "true",
              annotation |-> "object", id |-> "absent"]
      [] body = B_CREATED_NO_ANNOTATION ->
             [valid |-> TRUE, object |-> TRUE, success |-> "true",
              annotation |-> "absent", id |-> "absent"]
      [] body = B_CREATED_NULL_ANNOTATION ->
             [valid |-> TRUE, object |-> TRUE, success |-> "true",
              annotation |-> "null", id |-> "absent"]
      [] body = B_REFUSED ->
             [valid |-> TRUE, object |-> TRUE, success |-> "false",
              annotation |-> "absent", id |-> "absent"]
      [] body = B_NO_SUCCESS_KEY ->
             [valid |-> TRUE, object |-> TRUE, success |-> "absent",
              annotation |-> "absent", id |-> "absent"]
      [] body = B_JSON_LIST ->
             [valid |-> TRUE, object |-> FALSE, success |-> "absent",
              annotation |-> "absent", id |-> "absent"]
      [] OTHER ->
             [valid |-> FALSE, object |-> FALSE, success |-> "absent",
              annotation |-> "absent", id |-> "absent"]

\* result.get('annotation', {}).get('id', 'Unknown')
AnnotationId(j) ==
    IF j.annotation = "null"
    THEN Raise("AttributeError", <<"'NoneType' object has no attribute 'get'">>)
    ELSE IF j.annotation = "object" /\ j.id # "absent"
         THEN Return(TRUE, <<"Annotation created: ", j.id>>)
         ELSE Return(TRUE, <<"Annotation created: ", "Unknown">>)

\* result.get('success'), as a condition
SuccessFlag(j) == j.success = "true"

\* The status-200 branch.
On200(body) ==
    LET j == Json(body) IN
    IF ~j.valid THEN Raise("JSONDecodeError", <<"Expecting value">>)
    ELSE IF ~j.object
         THEN Raise("AttributeError", <<"'list' object has no attribute 'get'">>)
         ELSE IF SuccessFlag(j) THEN AnnotationId(j)
              ELSE Return(FALSE, <<"API returned success=false">>)

\* The body of the try block: the pair returned, or the exception raised in it.
TryBlock(o) ==
    IF o.kind = "response"
    THEN IF o.status = 200 THEN On200(o.body)
         ELSE IF o.status = 401
              THEN Raise("AmplitudeAuthenticationError", <<"Authentication failed">>)
              ELSE Return(FALSE, <<"HTTP ", IntStr(o.status), ": ", o.body>>)
    ELSE Raise(o.kind, <<o.kind>>)

\* The except clauses, in the order they are written.
ExceptClauses_TimeoutEscapes(r) ==
    IF IsTimeout(r.exc) THEN r
    ELSE IF IsConnectionError(r.exc) THEN Return(FALSE, <<"Connection error">>)
    ELSE IF IsAmplitudeAPIError(r.exc) THEN r
    ELSE Return(FALSE, <<"Error: ">> \o r.msg)

ExceptClauses_GenericEscapes(r) ==
    IF IsTimeout(r.exc) THEN Return(FALSE, <<"Request timeout">>)
    ELSE IF IsConnectionError(r.exc) THEN Return(FALSE, <<"Connection error">>)
    ELSE r

ExceptClauses(r) ==
    IF IsTimeout(r.exc) THEN Return(FALSE, <<"Request timeout">>)
    ELSE IF IsConnectionError(r.exc) THEN Return(FALSE, <<"Connection error">>)
    ELSE IF IsAmplitudeAPIError(r.exc) THEN r
    ELSE Return(FALSE, <<"Error: ">> \o r.msg)

create_annotation_result(o) ==
    LET r == TryBlock(o) IN IF r.kind = "raise" THEN ExceptClauses(r) ELSE r


(***************************************************************************)
(* close and __exit__                                                      *)
(***************************************************************************)
\* close(): hasattr(self, 'session') holds for every constructed client.
close_session(s) == "closed"

exit_session_OnlyWithoutException(exc_type, s) ==
    IF exc_type = None THEN close_session(s) ELSE s

\* __exit__(exc_type, exc_val, exc_tb): self.close(), whatever exc_type is.
exit_session(exc_type, s) == close_session(s)

(***************************************************************************)
(* bulk_annotate                                                           *)
(***************************************************************************)
ProgressArgs_ZeroBased(index, total) == <<index, total>>

\* progress_callback(i + 1, total)
ProgressArgs(index, total) == <<index + 1, total>>

\* The lists of a bulk run: every list over the pool, and two with an element
\* that is the empty string.
ChartIdLists ==
    UNION {[1..n -> ChartIdPool] : n \in 0..MaxCharts} \cup {<<"">>, <<"abc123", "">>}

(***************************************************************************)
(* The session's retry strategy (_create_session): urllib3's Retry as      *)
(* configured there, one HTTP attempt at a time.  Each attempt ends in a   *)
(* response or in one of urllib3's errors.                                 *)
(***************************************************************************)
max_retries == 3
ALLOWED_METHODS == {"HEAD", "GET", "PUT", "DELETE", "OPTIONS", "TRACE", "POST"}
AttemptErrorKinds == {"ReadTimeoutError", "ConnectTimeoutError", "NewConnectionError"}
AttemptEvents == {Response(200, B_CREATED), Response(401, "denied"),
                  Response(503, "busy")}
                 \cup {TransportError(k) : k \in AttemptErrorKinds}

\* Retry.increment is called for the attempt: a connection error always, a
\* read error and a response only for a method of allowed_methods, a
\* response only with a status of status_forcelist.
IsRetried(method, ev) ==
    IF ev.kind = "response"
    THEN method \in ALLOWED_METHODS /\ ev.status \in STATUS_FORCELIST
    ELSE IF ev.kind = "ReadTimeoutError" THEN method \in ALLOWED_METHODS
    ELSE TRUE

\* The request a session method has in hand: Retry.total as it stands, the
\* attempts made, how the last one ended, and whether the adapter still
\* retries ("retrying"), has its outcome ("settled") or has handed it back.
NoRq == [method |-> "none", total |-> max_retries, attempts |-> 0,
         last |-> NoOutcome, state |-> "idle"]

NewRq(method) == [NoRq EXCEPT !.method = method]

\* One attempt: Retry(total=max_retries) counts total down by one for each
\* attempt it retries and is exhausted once total is below zero.
AfterAttempt(rq, ev) ==
    IF IsRetried(rq.method, ev)
    THEN [rq EXCEPT !.attempts = @ + 1, !.last = ev, !.total = @ - 1,
                    !.state = IF rq.total - 1 < 0 THEN "settled" ELSE "retrying"]
    ELSE [rq EXCEPT !.attempts = @ + 1, !.last = ev, !.state = "settled"]

IsExhausted(rq) == rq.total < 0

\* What session.get / session.post hands back (HTTPAdapter.send): the
\* response, or requests' exception for urllib3's error.  Exhausted retries
\* are a MaxRetryError, raised as ConnectTimeout, RetryError or
\* ConnectionError by what the last attempt ended in.
SessionOutcome(rq) ==
    IF IsExhausted(rq)
    THEN IF rq.last.kind = "ConnectTimeoutError" THEN TransportError("ConnectTimeout")
         ELSE IF rq.last.kind = "response" THEN TransportError("RetryError")
         ELSE TransportError("ConnectionError")
    ELSE IF rq.last.kind = "response" THEN rq.last
    ELSE IF rq.last.kind = "ReadTimeoutError" THEN TransportError("ReadTimeout")
    ELSE IF rq.last.kind = "ConnectTimeoutError" THEN TransportError("ConnectTimeout")
    ELSE TransportError("ConnectionError")

(***************************************************************************)
(* utils/validators.py.  A Python str is the sequence of its characters.   *)
(***************************************************************************)
LowerCase == {"a", "b", "c", "d", "e", "f", "g", "h", "i", "j", "k", "l", "m",
              "n", "o", "p", "q", "r", "s", "t", "u", "v", "w", "x", "y", "z"}
UpperCase == {"A", "B", "C", "D", "E", "F", "G", "H", "I", "J", "K", "L", "M",
              "N", "O", "P", "Q", "R", "S", "T", "U", "V", "W", "X", "Y", "Z"}
Digits == {"0", "1", "2", "3", "4", "5", "6", "7", "8", "9"}
\* [a-zA-Z0-9_-]
IdChars == LowerCase \cup UpperCase \cup Digits \cup {"_", "-"}
\* \s, and what str.strip() strips
Whitespace == {" ", "\t", "\n", "\r", "\f"}
CHART_ID_MIN_LENGTH == 3

S_chart == <<"/", "c", "h", "a", "r", "t", "/">>
S_amplitude_com == <<"a", "m", "p", "l", "i", "t", "u", "d", "e", ".", "c", "o", "m">>

RECURSIVE lstrip(_)
lstrip(s) == IF s # <<>> /\ Head(s) \in Whitespace THEN lstrip(Tail(s)) ELSE s

RECURSIVE rstrip(_)
rstrip(s) ==
    IF s # <<>> /\ s[Len(s)] \in Whitespace THEN rstrip(SubSeq(s, 1, Len(s) - 1)) ELSE s

\* str.strip()
strip(s) == lstrip(rstrip(s))

\* The first position of s holding a character of chars, Len(s) + 1 if none.
RECURSIVE FindFirst(_, _, _)
FindFirst(s, chars, from) ==
    IF from > Len(s) \/ s[from] \in chars THEN from ELSE FindFirst(s, chars, from + 1)

\* The end of the run of characters of chars that starts at from.
RECURSIVE RunEnd(_, _, _)
RunEnd(s, chars, from) ==
    IF from > Len(s) \/ s[from] \notin chars THEN from - 1 ELSE RunEnd(s, chars, from + 1)

\* s.split('\n')
RECURSIVE split_newline(_)
split_newline(s) ==
    LET p == FindFirst(s, {"\n"}, 1) IN
    IF p > Len(s) THEN <<s>>
    ELSE <<SubSeq(s, 1, p - 1)>> \o split_newline(SubSeq(s, p + 1, Len(s)))

\* sub in s
Contains(s, sub) ==
    \E p \in 1..(Len(s) - Len(sub) + 1) : SubSeq(s, p, p + Len(sub) - 1) = sub

\* re.search(CHART_URL_PATTERN, line): the leftmost "/chart/" that an
\* identifier character follows; group(1) is the run of identifier characters
\* after it.  <<>> stands for no match.
ChartUrlMatchAt(line, p) ==
    /\ p + Len(S_chart) <= Len(line)
    /\ SubSeq(line, p, p + Len(S_chart) - 1) = S_chart
    /\ line[p + Len(S_chart)] \in IdChars

re_search_CHART_URL_PATTERN(line) ==
    LET starts == {p \in 1..Len(line) : ChartUrlMatchAt(line, p)} IN
    IF starts = {} THEN <<>>
    ELSE LET p == CHOOSE q \in starts : \A r \in starts : q <= r
             from == p + Len(S_chart)
         IN  SubSeq(line, from, RunEnd(line, IdChars, from))

\* re.split(r'[,\s]+', line)
RECURSIVE re_split(_)
re_split(line) ==
    LET seps == Whitespace \cup {","}
        p == FindFirst(line, seps, 1)
    IN  IF p > Len(line) THEN <<line>>
        ELSE <<SubSeq(line, 1, p - 1)>>
                 \o re_split(SubSeq(line, RunEnd(line, seps, p) + 1, Len(line)))

\* re.match(CHART_ID_PATTERN, s): identifier characters, at least
\* CHART_ID_MIN_LENGTH of them, up to '$', which matches at the end of the
\* string and also just before a newline that ends it.
re_match_CHART_ID_PATTERN(s) ==
    LET n == RunEnd(s, IdChars, 1) IN
    /\ n >= CHART_ID_MIN_LENGTH
    /\ (n = Len(s) \/ (n = Len(s) - 1 /\ s[Len(s)] = "\n"))

\* The parts of a line that is not a URL: the inner loop of extract_chart_ids.
RECURSIVE DirectIds(_)
DirectIds(parts) ==
    IF parts = <<>> THEN <<>>
    ELSE LET part == strip(Head(parts)) IN
         (IF part # <<>> /\ re_match_CHART_ID_PATTERN(part) THEN <<part>> ELSE <<>>)
             \o DirectIds(Tail(parts))

\* One line of the outer loop: what it appends to chart_ids.
LineIds(raw) ==
    LET line == strip(raw) IN
    IF line = <<>> THEN <<>>
    ELSE IF Contains(line, S_amplitude_com) /\ Contains(line, S_chart)
         THEN LET group == re_search_CHART_URL_PATTERN(line) IN
              IF group # <<>> THEN <<group>> ELSE <<>>
         ELSE DirectIds(re_split(line))

RECURSIVE LinesIds(_)
LinesIds(lines) ==
    IF lines = <<>> THEN <<>> ELSE LineIds(Head(lines)) \o LinesIds(Tail(lines))

\* chart_ids as it stands when the loop of extract_chart_ids ends.
extract_chart_ids_list(input_text) ==
    IF strip(input_text) = <<>> THEN <<>>
    ELSE LinesIds(split_newline(strip(input_text)))

Range(seq) == {seq[k] : k \in 1..Len(seq)}

\* list(set(chart_ids)): the elements once each, in an order the hash decides.
ListOfSet_KeepsRepeats(seq) == {seq}

ListOfSet(seq) ==
    {f \in [1..Cardinality(Range(seq)) -> Range(seq)] :
        \A a, b \in DOMAIN f : a # b => f[a] # f[b]}

\* validate_chart_ids: the loop, appending each chart_id to one of the lists.
RECURSIVE validate_loop(_, _, _)
validate_loop(ids, valid, invalid) ==
    IF ids = <<>> THEN <<valid, invalid>>
    ELSE IF re_match_CHART_ID_PATTERN(Head(ids))
         THEN validate_loop(Tail(ids), Append(valid, Head(ids)), invalid)
         ELSE validate_loop(Tail(ids), valid, Append(invalid, Head(ids)))

validate_chart_ids_result_DropsInvalid(ids) == <<validate_loop(ids, <<>>, <<>>)[1], <<>> >>

validate_chart_ids_result(ids) == validate_loop(ids, <<>>, <<>>)

(***************************************************************************)
(* SelectionTab (amplitude_bulk_annotator.py).  The text of chart_input is  *)
(* a sequence of characters in which each of the three marks parse_input   *)
(* writes is one character.                                                *)
(***************************************************************************)
E_VALID == "<check mark>"
E_INVALID == "<cross mark>"
E_PENDING == "<hourglass>"

\* The methods class AmplitudeAPIClient defines.
ClientMethods ==
    {"__init__", "_create_session", "_set_auth_headers", "test_connection",
     "create_annotation", "bulk_annotate", "__enter__", "__exit__", "close"}

Selection(api_client, project_id, chart_input, valid_chart_ids, status, selectionComplete, tab2, last) ==
    [api_client |-> api_client, project_id |-> project_id,
     chart_input |-> chart_input, valid_chart_ids |-> valid_chart_ids,
     status |-> status, selectionComplete |-> selectionComplete,
     tab2 |-> tab2, last |-> last]

NoSelection ==
    Selection(FALSE, 0, <<>>, <<>>, "Ready to validate chart IDs", "none", FALSE, "none")

\* selectionComplete.emit(has_selection), with its slot
\* on_selection_complete: tab 2 is enabled by has_selection.
emit_selectionComplete(s, has_selection) ==
    [s EXCEPT !.selectionComplete = IF has_selection THEN "True" ELSE "False",
              !.tab2 = has_selection]

\* str.replace(sub, '')
RECURSIVE str_remove(_, _)
str_remove(str, sub) ==
    IF Len(str) < Len(sub) THEN str
    ELSE IF SubSeq(str, 1, Len(sub)) = sub
         THEN str_remove(SubSeq(str, Len(sub) + 1, Len(str)), sub)
         ELSE <<Head(str)>> \o str_remove(Tail(str), sub)

remove_emoji(line, emoji) ==
    str_remove(str_remove(str_remove(line, <<" ", emoji>>), <<emoji, " ">>), <<emoji>>)

\* The loop over the three marks, and the strip after it.
clean_line(original_line) ==
    strip(remove_emoji(remove_emoji(remove_emoji(original_line, E_VALID),
                                    E_INVALID), E_PENDING))

\* One line of parse_input's first loop: the line it appends to
\* format_validated_lines and the IDs it adds to candidate_chart_ids.
FormatLine(line) ==
    LET original_line == strip(line) IN
    IF original_line = <<>> THEN [text |-> <<>>, ids |-> <<>>]
    ELSE LET clean == clean_line(original_line)
             line_chart_ids == extract_chart_ids_list(clean)
             partition == validate_chart_ids_result(line_chart_ids)
         IN  IF line_chart_ids # <<>> /\ partition[1] # <<>> /\ partition[2] = <<>>
             THEN [text |-> <<E_PENDING, " ">> \o clean, ids |-> partition[1]]
             ELSE [text |-> <<E_INVALID, " ">> \o clean, ids |-> <<>>]

RECURSIVE FormatLinesText(_)
FormatLinesText(lines) ==
    IF lines = <<>> THEN <<>>
    ELSE IF Len(lines) = 1 THEN FormatLine(lines[1]).text
    ELSE FormatLine(Head(lines)).text \o <<"\n">> \o FormatLinesText(Tail(lines))

RECURSIVE CandidateIds(_)
CandidateIds(lines) ==
    IF lines = <<>> THEN <<>> ELSE FormatLine(Head(lines)).ids \o CandidateIds(Tail(lines))

\* The lines that were pending become valid or invalid by what the
\* validation said of their charts (here: the same of every chart).
RECURSIVE FinalLinesText(_, _)
FinalLinesText(lines, exists) ==
    IF lines = <<>> THEN <<>>
    ELSE LET f == FormatLine(Head(lines))
             final == IF f.ids # <<>>
                      THEN <<IF exists THEN E_VALID ELSE E_INVALID>> \o Tail(f.text)
                      ELSE f.text
         IN  IF Len(lines) = 1 THEN final
             ELSE final \o <<"\n">> \o FinalLinesText(Tail(lines), exists)

\* on_text_changed, for the text the edit left in chart_input.
on_text_changed(s, text) ==
    LET t == [s EXCEPT !.chart_input = text, !.last = "on_text_changed"] IN
    IF strip(text) # <<>>
    THEN [t EXCEPT !.status = "Input detected"]
    ELSE emit_selectionComplete(
             [t EXCEPT !.status = "Ready to validate chart IDs",
                       !.valid_chart_ids = <<>>], FALSE)

\* parse_input.  self.api_client.bulk_validate_charts is an attribute lookup
\* on the client: a method the class does not define raises AttributeError,
\* which `except Exception` turns into the validation error.  exists is what
\* a validation that returned would have said of the charts.
parse_input_result(s, exists) ==
    LET input_text == s.chart_input
        t == [s EXCEPT !.last = "parse_input"]
    IN
    IF strip(input_text) = <<>>
    THEN emit_selectionComplete(
             [t EXCEPT !.status = "No charts to process", !.valid_chart_ids = <<>>],
             FALSE)
    ELSE IF ~s.api_client \/ s.project_id = 0
    THEN [t EXCEPT !.status = "API client not configured"]
    ELSE LET lines == split_newline(strip(input_text))
             candidate_chart_ids == CandidateIds(lines)
             shown == [t EXCEPT !.chart_input = FormatLinesText(lines)]
         IN  IF candidate_chart_ids = <<>>
             THEN emit_selectionComplete(
                      [shown EXCEPT !.status = "No valid chart formats found",
                                    !.valid_chart_ids = <<>>], FALSE)
             ELSE IF "bulk_validate_charts" \notin ClientMethods
             THEN emit_selectionComplete(
                      [shown EXCEPT !.status = "Validation error",
                                    !.valid_chart_ids = <<>>], FALSE)
             ELSE IF exists
             THEN emit_selectionComplete(
                      [shown EXCEPT !.chart_input = FinalLinesText(lines, TRUE),
                                    !.status = "valid charts ready for annotation",
                                    !.valid_chart_ids =
                                        CHOOSE l \in ListOfSet(candidate_chart_ids) : TRUE],
                      TRUE)
             ELSE emit_selectionComplete(
                      [shown EXCEPT !.chart_input = FinalLinesText(lines, FALSE),
                                    !.status = "No valid charts found",
                                    !.valid_chart_ids = <<>>], FALSE)

(***************************************************************************)
(* config_manager.py.  The environment maps the four variable names to a   *)
(* string or to None (unset); the project ID's text is kept as the         *)
(* sequence of its characters, for isdigit() and int().  The preference    *)
(* file is missing, unreadable, no JSON, or holds a JSON value.            *)
(***************************************************************************)
DEFAULT_REGION == "US"

PyNone == [type |-> "NoneType"]
PyStr(v) == [type |-> "str", val |-> v]
PyInt(n) == [type |-> "int", val |-> n]
\* A key the JSON object does not have.
JAbsent == [type |-> "absent"]

\* str.isdigit(), on the characters the model's texts are made of.
isdigit(str) == str # <<>> /\ \A k \in 1..Len(str) : str[k] \in Digits

DigitVal(c) == CHOOSE d \in 0..9 : DigitStr(d) = c

\* int(str), for a str of digits.
RECURSIVE int(_)
int(str) ==
    IF str = <<>> THEN 0
    ELSE 10 * int(SubSeq(str, 1, Len(str) - 1)) + DigitVal(str[Len(str)])

AmplitudeConfig(api_key, secret_key, project_id, region, from_environment) ==
    [api_key |-> api_key, secret_key |-> secret_key, project_id |-> project_id,
     region |-> region, from_environment |-> from_environment]

\* AmplitudeConfig(): the dataclass defaults.
DefaultConfig == AmplitudeConfig(None, None, PyNone, DEFAULT_REGION, FALSE)

\* _load_from_environment returns a configuration, not None.
EnvConfigFound(env) == Truthy(env.AMPLITUDE_API_KEY) /\ Truthy(env.AMPLITUDE_SECRET_KEY)

EnvProjectId(env) ==
    LET project_id_str == env.AMPLITUDE_PROJECT_ID IN
    IF project_id_str.type = "str" /\ project_id_str.val # <<>>
           /\ isdigit(project_id_str.val)
    THEN PyInt(int(project_id_str.val))
    ELSE PyNone

EnvRegion_Unchecked(env) ==
    IF env.AMPLITUDE_REGION = None THEN DEFAULT_REGION ELSE env.AMPLITUDE_REGION

\* os.getenv(ENV_REGION, DEFAULT_REGION), replaced by the default if invalid.
EnvRegion(env) ==
    LET region == IF env.AMPLITUDE_REGION = None THEN DEFAULT_REGION
                  ELSE env.AMPLITUDE_REGION
    IN  IF region \notin VALID_REGIONS THEN DEFAULT_REGION ELSE region

\* The configuration _load_from_environment returns when it returns one.
load_from_environment(env) ==
    AmplitudeConfig(env.AMPLITUDE_API_KEY, env.AMPLITUDE_SECRET_KEY,
                    EnvProjectId(env), EnvRegion(env), TRUE)

\* not config.project_id
ProjectIdFalsy(project_id) ==
    project_id.type = "NoneType" \/ (project_id.type = "int" /\ project_id.val = 0)

\* The region block of _load_preferences, for prefs a JSON object.
PrefsRegion(config, prefs) ==
    IF config.from_environment THEN config.region
    ELSE LET region == IF prefs.region = JAbsent THEN PyStr(DEFAULT_REGION)
                       ELSE prefs.region
         IN  IF region.type = "str" /\ region.val \in VALID_REGIONS
             THEN region.val
             ELSE config.region

\* The project_id block of _load_preferences, for prefs a JSON object.
PrefsProjectId(config, prefs) ==
    IF ProjectIdFalsy(config.project_id) /\ prefs.project_id # JAbsent
    THEN LET project_id_str == prefs.project_id IN
         IF project_id_str.type = "str" /\ isdigit(project_id_str.val)
         THEN PyInt(int(project_id_str.val))
         ELSE IF project_id_str.type = "int" THEN project_id_str
              ELSE config.project_id
    ELSE config.project_id

ConfigReturned(config) == [kind |-> "return", exc |-> "-", config |-> config]
ConfigRaised(exc, config) == [kind |-> "raise", exc |-> exc, config |-> config]
NoConfigResult == [kind |-> "none", exc |-> "-", config |-> DefaultConfig]

\* _load_preferences(config) and the return of load_config: a missing file
\* returns at once, IOError and JSONDecodeError are caught, and a JSON list
\* has no get(): the AttributeError is not caught.
load_preferences(config, file) ==
    CASE file.kind \in {"missing", "unreadable", "malformed"} -> ConfigReturned(config)
      [] file.kind = "list" ->
             IF ~config.from_environment
             THEN ConfigRaised("AttributeError", config)
             ELSE ConfigReturned(config)
      [] file.kind = "object" ->
             ConfigReturned([config EXCEPT
                                !.region = PrefsRegion(config, file.prefs),
                                !.project_id = PrefsProjectId(config, file.prefs)])

load_config_result(env, file) ==
    load_preferences(IF EnvConfigFound(env) THEN load_from_environment(env)
                     ELSE DefaultConfig,
                     file)

NoFile == [kind |-> "missing", prefs |-> [region |-> JAbsent, project_id |-> JAbsent]]
NoEnvironment ==
    [AMPLITUDE_API_KEY |-> None, AMPLITUDE_SECRET_KEY |-> None,
     AMPLITUDE_PROJECT_ID |-> PyNone, AMPLITUDE_REGION |-> None]

(***************************************************************************)
(* ConfigTab's form (amplitude_bulk_annotator.py) and the preference file  *)
(* as the process writes it: a JSON object, kept as the function from its  *)
(* keys to its values.                                                     *)
(***************************************************************************)
MASKED_CREDENTIAL_DISPLAY == "<masked>"

Form(api_key_input, secret_key_input, project_id_input, region_combo, from_env, config_valid) ==
    [api_key_input |-> api_key_input, secret_key_input |-> secret_key_input,
     project_id_input |-> project_id_input, region_combo |-> region_combo,
     credentials_from_env |-> from_env, config_valid |-> config_valid]

\* init_ui: empty line edits, the combo box on the first of VALID_REGIONS.
NoForm == Form("", "", <<>>, "US", FALSE, FALSE)

\* The file's content with the method that wrote it.
NotWritten == [written |-> FALSE, by |-> "nothing", prefs |-> <<>>]
Written(by, prefs) == [written |-> TRUE, by |-> by, prefs |-> prefs]

\* os.getenv(ENV_PROJECT_ID) as a condition: set, and not to the empty string.
EnvProjectIdTruthy(env) ==
    env.AMPLITUDE_PROJECT_ID.type = "str" /\ env.AMPLITUDE_PROJECT_ID.val # <<>>

\* QComboBox.setCurrentText on a combo box that is not editable: the text is
\* selected if it is one of the items.
setCurrentText(combo, text) == IF text \in VALID_REGIONS THEN text ELSE combo

\* _setup_env_credentials
setup_env_credentials(f, env) ==
    [f EXCEPT !.api_key_input = MASKED_CREDENTIAL_DISPLAY,
              !.secret_key_input = MASKED_CREDENTIAL_DISPLAY,
              !.region_combo = setCurrentText(@, IF env.AMPLITUDE_REGION = None
                                                 THEN DEFAULT_REGION
                                                 ELSE env.AMPLITUDE_REGION),
              !.project_id_input = IF EnvProjectIdTruthy(env)
                                   THEN env.AMPLITUDE_PROJECT_ID.val ELSE @,
              !.credentials_from_env = TRUE]

\* _setup_manual_credentials, for a preference file whose values are strings.
setup_manual_credentials(f, env, file) ==
    IF file.kind = "object"
    THEN [f EXCEPT !.region_combo =
                       setCurrentText(@, IF file.prefs.region = JAbsent
                                         THEN DEFAULT_REGION ELSE file.prefs.region.val),
                   !.project_id_input =
                       IF EnvProjectIdTruthy(env) THEN @
                       ELSE IF file.prefs.project_id = JAbsent THEN <<>>
                            ELSE file.prefs.project_id.val,
                   !.credentials_from_env = FALSE]
    ELSE [f EXCEPT !.credentials_from_env = FALSE]

\* ConfigTab.load_config
ConfigTab_load_config_form(f, env, file) ==
    IF Truthy(env.AMPLITUDE_API_KEY) /\ Truthy(env.AMPLITUDE_SECRET_KEY)
    THEN setup_env_credentials(f, env)
    ELSE setup_manual_credentials(f, env, file)

\* `if project_id:` on what get_selected_project_id returns.
HasSelectedProjectId(f, env) ==
    IF EnvProjectIdTruthy(env) /\ isdigit(env.AMPLITUDE_PROJECT_ID.val)
    THEN int(env.AMPLITUDE_PROJECT_ID.val) # 0
    ELSE isdigit(strip(f.project_id_input)) /\ int(strip(f.project_id_input)) # 0

save_config_prefs_WithApiKey(f, env) ==
    [region |-> f.region_combo, api_key |-> f.api_key_input]

\* ConfigTab.save_config: the dict it dumps.
save_config_prefs(f, env) ==
    [region |-> f.region_combo]
        @@ (IF ~EnvProjectIdTruthy(env) /\ f.project_id_input # <<>>
            THEN [project_id |-> f.project_id_input] ELSE <<>>)

\* ConfigManager.save_preferences(region, project_id): the dict it dumps.
save_preferences_prefs(region, project_id, env) ==
    [region |-> region]
        @@ (IF project_id \notin {PyNone, PyStr(<<>>)} /\ ~EnvProjectIdTruthy(env)
            THEN [project_id |-> project_id.val] ELSE <<>>)

(***************************************************************************)
(* APIWorker.run (amplitude_bulk_annotator.py).                            *)
(***************************************************************************)
\* The worker: its operation, how far run() is, the finished(success,
\* message) signals it emitted, and the exception that left run(), if any.
WorkerRun(operation, state, emitted, escaped) ==
    [operation |-> operation, state |-> state, emitted |-> emitted, escaped |-> escaped]

NoWorkerRun == WorkerRun("none", "idle", <<>>, "-")

\* sum(1 for _, success, _ in results if success)
RECURSIVE success_count(_)
success_count(rs) ==
    IF rs = <<>> THEN 0
    ELSE (IF Head(rs)[2] THEN 1 ELSE 0) + success_count(Tail(rs))

bulk_summary_AnySuccess(rs) ==
    <<success_count(rs) > 0,
      <<"Completed: ", IntStr(success_count(rs)), "/", IntStr(Len(rs)), " successful">> >>

\* _handle_bulk_annotate: the (success, message) it emits for the results.
bulk_summary(rs) ==
    <<success_count(rs) = Len(rs),
      IF Len(rs) = 0 THEN <<"No charts to annotate">>
      ELSE IF success_count(rs) = Len(rs)
           THEN <<"All ", IntStr(Len(rs)), " annotations successful">>
           ELSE <<"Completed: ", IntStr(success_count(rs)), "/", IntStr(Len(rs)),
                  " successful">> >>

\* The except clauses of run().
run_except(exc, msg) ==
    IF IsAmplitudeAPIError(exc) THEN <<FALSE, <<"API Error: ">> \o msg>>
    ELSE <<FALSE, <<"Unexpected error: ">> \o msg>>

(***************************************************************************)
(* The state.                                                              *)
(***************************************************************************)
VARIABLES
    client,       \* the client object's fields, fixed by __init__
    session,      \* "none" | "open" | "closed": the client's requests.Session
    withState,    \* "outside" | "inside": whether a with block on the client is open
    lastCall,     \* the client method called last
    lastArgs,     \* its arguments, when it was create_annotation
    lastRequest,  \* the request it sent, if it sent one
    lastOutcome,  \* what the transport handed back for that request
    lastResult,   \* what the call returned or raised
    pc,           \* bulk_annotate: "idle" | "loop" | "done"
    bulkArgs,     \* bulk_annotate's project_id, annotation_date, label, details
    chart_ids,    \* bulk_annotate's chart_ids
    hasCallback,  \* whether a progress_callback was supplied
    i,            \* how many charts the loop has taken from chart_ids
    broke,        \* the loop was left by break
    results,      \* the results list: <<chart_id, success, message>> tuples
    resultOwner,  \* history: for each result, the position of its chart
    cbCalls,      \* history: the arguments of each progress_callback call
    steps,        \* history: how each chart taken so far went
    appClients,       \* the application: every AmplitudeAPIClient it constructed
    configTabClient,  \* ConfigTab.api_client: a position in appClients, 0 for None
    mainClient,       \* AmplitudeBulkAnnotator.api_client, likewise
    workers,          \* the APIWorker threads that are running
    ui,               \* the windows: buttons, the auto-test timer, dialogs
    rq,               \* the HTTP request a session method has in hand
    httpAttempts,     \* history: the HTTP attempts of the bulk run so far
    server,           \* history: the POSTs the server received and the
                      \* annotations it created for the chart being processed
    vpc,              \* validators: "start" | "text" | "extracted" | "validated" | "validated_again"
    input_text,       \* extract_chart_ids' argument
    unique_ids,       \* the list extract_chart_ids returned
    candidate_ids,    \* validate_chart_ids' argument
    valid_ids,        \* the first list validate_chart_ids returned
    invalid_ids,      \* the second
    cpc,              \* configuration: "start" | "ready" | "loaded"
    environ,          \* os.environ, the four variables
    config_file,      \* the preference file
    config,           \* what load_config returned or raised
    form,             \* ConfigTab: its input fields and credentials_from_env
    prefs_written,    \* what this process last wrote to the preference file
    wk,               \* an APIWorker: its operation, where run() is, what it emitted
    sel               \* SelectionTab: its client, text, chart IDs, status and signal

clientVars == <<client, session, withState>>
callVars == <<lastCall, lastArgs, lastRequest, lastOutcome, lastResult>>
bulkVars == <<pc, bulkArgs, chart_ids, hasCallback, i, broke, results,
              resultOwner, cbCalls, steps>>
appVars == <<appClients, configTabClient, mainClient, workers, ui>>
\* What the client's own operations leave alone.
retryVars == <<rq, httpAttempts, server>>
validatorVars == <<vpc, input_text, unique_ids, candidate_ids, valid_ids, invalid_ids>>
configVars == <<cpc, environ, config_file, config, form, prefs_written>>
workerVars == <<wk>>
selVars == <<sel>>
otherVars == <<appVars, retryVars, validatorVars, configVars, workerVars, selVars>>
vars == <<clientVars, callVars, bulkVars, otherVars>>

NoBulkArgs == [project_id |-> 0, annotation_date |-> [year |-> 0, month |-> 0, day |-> 0],
               label |-> "", details |-> ""]

BulkIdle ==
    /\ pc' = "idle"
    /\ bulkArgs' = NoBulkArgs
    /\ chart_ids' = <<>>
    /\ hasCallback' = FALSE
    /\ i' = 0
    /\ broke' = FALSE
    /\ results' = <<>>
    /\ resultOwner' = <<>>
    /\ cbCalls' = <<>>
    /\ steps' = <<>>

\* The windows before ConfigTab.__init__ has run: test_btn is the test
\* button's enabled state, timer the pending auto-test single shot, progress
\* the open progress dialog, run and report the last bulk run and the
\* completion dialog shown for it.
NoUi == [made |-> FALSE, credentials_from_env |-> FALSE, test_btn |-> FALSE,
         timer |-> FALSE, progress |-> FALSE, run |-> "none", report |-> "none"]

\* The application before its windows are constructed: no client, no worker.
AppInit ==
    /\ appClients = <<>>
    /\ configTabClient = 0
    /\ mainClient = 0
    /\ workers = {}
    /\ ui = NoUi

\* Neither function of validators.py has been called.
ValidatorsInit ==
    /\ vpc = "start"
    /\ input_text = <<>>
    /\ unique_ids = <<>>
    /\ candidate_ids = <<>>
    /\ valid_ids = <<>>
    /\ invalid_ids = <<>>

\* load_config has not been called.
ConfigInit ==
    /\ cpc = "start"
    /\ environ = NoEnvironment
    /\ config_file = NoFile
    /\ config = NoConfigResult
    /\ form = NoForm
    /\ prefs_written = NotWritten

NoPosts == [received |-> 0, created |-> 0]

\* No request in hand.
RetryInit ==
    /\ rq = NoRq
    /\ httpAttempts = 0
    /\ server = NoPosts

\* The client before any call.
ClientInit ==
    /\ client = NoClient
    /\ session = "none"
    /\ withState = "outside"
    /\ lastCall = "none"
    /\ lastArgs = NoArgs
    /\ lastRequest = NoRequest
    /\ lastOutcome = NoOutcome
    /\ lastResult = NoResult
    /\ pc = "idle"
    /\ bulkArgs = NoBulkArgs
    /\ chart_ids = <<>>
    /\ hasCallback = FALSE
    /\ i = 0
    /\ broke = FALSE
    /\ results = <<>>
    /\ resultOwner = <<>>
    /\ cbCalls = <<>>
    /\ steps = <<>>

\* No APIWorker has been started.
WorkerInit == wk = NoWorkerRun

\* SelectionTab.__init__, and tab 2 of the main window disabled.
SelectionInit == sel = NoSelection

Init ==
    /\ ClientInit
    /\ WorkerInit
    /\ SelectionInit
    /\ AppInit
    /\ RetryInit
    /\ ValidatorsInit
    /\ ConfigInit

\* self.session.get / self.session.post: the request goes to
\* urljoin(self.base_url, API_ANNOTATIONS_ENDPOINT) with the session's headers;
\* a session that was closed opens connections again when it is used.
Send_AnonymousToUS(method, params, o) ==
    /\ lastRequest' = [method |-> method,
                       url |-> urljoin(API_BASE_URL_US, API_ANNOTATIONS_ENDPOINT),
                       params |-> params, auth |-> <<>>]
    /\ lastOutcome' = o
    /\ session' = "open"

Send(method, params, o) ==
    /\ lastRequest' = [method |-> method,
                       url |-> urljoin(client.base_url, API_ANNOTATIONS_ENDPOINT),
                       params |-> params, auth |-> client.auth]
    /\ lastOutcome' = o
    /\ session' = "open"

(***************************************************************************)
(* AmplitudeAPIClient(api_key, secret_key, region).  One client is modelled *)
(* at a time: a new one is constructed once the last one has been closed.  *)
(***************************************************************************)
client_init(api_key, secret_key, region) ==
    /\ pc = "idle"
    /\ lastCall' = "__init__"
    /\ lastArgs' = NoArgs
    /\ lastRequest' = NoRequest
    /\ lastOutcome' = NoOutcome
    /\ UNCHANGED bulkVars
    /\ IF RegionAccepted(region)
       THEN /\ session # "open"
            /\ withState # "inside"
            /\ client' = NewClient(api_key, secret_key, region)
            /\ session' = "open"
            /\ withState' = "outside"
            /\ lastResult' = Return(TRUE, <<>>)
       ELSE /\ lastResult' = Raise("ValueError", <<"Invalid region: ", region>>)
            /\ UNCHANGED <<client, session, withState>>

test_connection(o) ==
    /\ pc = "idle"
    /\ client.made
    /\ Send("GET", <<>>, o)
    /\ lastCall' = "test_connection"
    /\ lastResult' = test_connection_result(o)
    /\ lastArgs' = NoArgs
    /\ UNCHANGED <<client, withState, bulkVars>>

\* A direct create_annotation call.  Inside a with block an exception the
\* caller does not catch leaves the block, which runs __exit__.
create_annotation(a, o, caught) ==
    /\ pc = "idle"
    /\ client.made
    /\ caught \/ (withState = "inside" /\ create_annotation_result(o).kind = "raise")
    /\ lastArgs' = a
    /\ lastResult' = create_annotation_result(o)
    /\ lastRequest' = [method |-> "POST",
                       url |-> urljoin(client.base_url, API_ANNOTATIONS_ENDPOINT),
                       params |-> BuildParams(a), auth |-> client.auth]
    /\ lastOutcome' = o
    /\ IF lastResult'.kind = "raise" /\ withState = "inside" /\ ~caught
       THEN /\ withState' = "outside"
            /\ session' = exit_session(lastResult'.exc, "open")
            /\ lastCall' = "__exit__"
       ELSE /\ session' = "open"
            /\ lastCall' = "create_annotation"
            /\ UNCHANGED withState
    /\ UNCHANGED <<client, bulkVars>>

client_enter ==
    /\ pc = "idle"
    /\ client.made
    /\ withState = "outside"
    /\ withState' = "inside"
    /\ UNCHANGED <<client, session, callVars, bulkVars>>

\* The with block ends normally: __exit__(None, None, None).
client_exit ==
    /\ pc = "idle"
    /\ withState = "inside"
    /\ withState' = "outside"
    /\ session' = exit_session(None, session)
    /\ lastCall' = "__exit__"
    /\ lastArgs' = NoArgs
    /\ lastRequest' = NoRequest
    /\ lastOutcome' = NoOutcome
    /\ lastResult' = Return(TRUE, <<>>)
    /\ UNCHANGED <<client, bulkVars>>

close ==
    /\ pc = "idle"
    /\ client.made
    /\ session' = close_session(session)
    /\ lastCall' = "close"
    /\ lastArgs' = NoArgs
    /\ lastRequest' = NoRequest
    /\ lastOutcome' = NoOutcome
    /\ lastResult' = Return(TRUE, <<>>)
    /\ UNCHANGED <<client, withState, bulkVars>>

(***************************************************************************)
(* bulk_annotate: the call, one loop iteration at a time, and its return.  *)
(* The records of the last call start afresh with the run; the run is made *)
(* outside a with block, which it could not leave anyway (it raises        *)
(* nothing).                                                               *)
(***************************************************************************)
bulk_annotate_call(project_id, ids, annotation_date, label, details, callback) ==
    /\ pc = "idle"
    /\ client.made
    /\ withState = "outside"
    /\ pc' = "loop"
    /\ bulkArgs' = [project_id |-> project_id, annotation_date |-> annotation_date,
                    label |-> label, details |-> details]
    /\ chart_ids' = ids
    /\ hasCallback' = callback
    /\ i' = 0
    /\ broke' = FALSE
    /\ results' = <<>>
    /\ resultOwner' = <<>>
    /\ cbCalls' = <<>>
    /\ steps' = <<>>
    /\ lastCall' = "bulk_annotate"
    /\ lastArgs' = NoArgs
    /\ lastRequest' = NoRequest
    /\ lastOutcome' = NoOutcome
    /\ lastResult' = NoResult
    /\ UNCHANGED clientVars

\* One iteration: create_annotation for chart_ids[i], the append, the callback
\* (which returns or raises), and the except clauses.
bulk_annotate_step(o, callbackRaises) ==
    /\ pc = "loop"
    /\ ~broke
    /\ i < Len(chart_ids)
    /\ callbackRaises \in BOOLEAN
    /\ LET chart_id == chart_ids[i + 1]
           a == Args(bulkArgs.project_id, bulkArgs.annotation_date,
                     bulkArgs.label, bulkArgs.details, chart_id)
           r == create_annotation_result(o)
           total == Len(chart_ids)
       IN  /\ Send("POST", BuildParams(a), o)
           /\ lastCall' = "create_annotation"
           /\ lastArgs' = a
           /\ lastResult' = r
           /\ i' = i + 1
           /\ IF r.kind = "return"
              THEN /\ broke' = FALSE
                   /\ IF hasCallback
                      THEN /\ cbCalls' = Append(cbCalls, ProgressArgs(i, total))
                           /\ IF callbackRaises
                              THEN /\ results' = results \o
                                         << <<chart_id, r.ok, r.msg>>,
                                            <<chart_id, FALSE, <<CallbackErrorText>> >> >>
                                   /\ resultOwner' = resultOwner \o <<i + 1, i + 1>>
                                   /\ steps' = Append(steps,
                                         [ca |-> "returned", cb |-> "raised"])
                              ELSE /\ results' = Append(results, <<chart_id, r.ok, r.msg>>)
                                   /\ resultOwner' = Append(resultOwner, i + 1)
                                   /\ steps' = Append(steps,
                                         [ca |-> "returned", cb |-> "returned"])
                      ELSE /\ ~callbackRaises
                           /\ results' = Append(results, <<chart_id, r.ok, r.msg>>)
                           /\ resultOwner' = Append(resultOwner, i + 1)
                           /\ steps' = Append(steps, [ca |-> "returned", cb |-> "absent"])
                           /\ UNCHANGED cbCalls
              ELSE /\ ~callbackRaises
                   /\ resultOwner' = Append(resultOwner, i + 1)
                   /\ UNCHANGED cbCalls
                   /\ IF r.exc = "AmplitudeAuthenticationError"
                      THEN /\ results' = Append(results,
                                  <<chart_id, FALSE, <<"Authentication failed">> >>)
                           /\ broke' = TRUE
                           /\ steps' = Append(steps,
                                  [ca |-> "raised_auth", cb |-> "not_called"])
                      ELSE /\ results' = Append(results, <<chart_id, FALSE, r.msg>>)
                           /\ broke' = FALSE
                           /\ steps' = Append(steps,
                                  [ca |-> "raised_other", cb |-> "not_called"])
    /\ UNCHANGED <<client, withState, pc, bulkArgs, chart_ids, hasCallback>>

\* The loop is over (the list is exhausted, or break): return results.
bulk_annotate_return ==
    /\ pc = "loop"
    /\ broke \/ i = Len(chart_ids)
    /\ pc' = "done"
    /\ UNCHANGED <<clientVars, callVars, bulkArgs, chart_ids, hasCallback, i,
                   broke, results, resultOwner, cbCalls, steps>>

\* The caller has read the returned list and lets go of it.
results_consumed ==
    /\ pc = "done"
    /\ BulkIdle
    /\ lastCall' = "none"
    /\ lastArgs' = NoArgs
    /\ lastRequest' = NoRequest
    /\ lastOutcome' = NoOutcome
    /\ lastResult' = NoResult
    /\ UNCHANGED clientVars

Next ==
    \/ \E k \in ApiKeys, s \in SecretKeys, region \in RegionInputs :
           client_init(k, s, region) /\ UNCHANGED otherVars
    \/ \E o \in Outcomes : test_connection(o) /\ UNCHANGED otherVars
    \/ \E p \in ProjectIds, d \in Dates, l \in Labels, t \in DetailsInputs,
          c \in ChartIdArgs, o \in Outcomes, caught \in BOOLEAN :
           create_annotation(Args(p, d, l, t, c), o, caught) /\ UNCHANGED otherVars
    \/ client_enter /\ UNCHANGED otherVars
    \/ client_exit /\ UNCHANGED otherVars
    \/ close /\ UNCHANGED otherVars
    \/ \E p \in ProjectIds, ids \in ChartIdLists, d \in Dates, l \in Labels,
          t \in DetailsInputs, cb \in BOOLEAN :
           bulk_annotate_call(p, ids, d, l, t, cb) /\ UNCHANGED otherVars
    \/ \E o \in BulkOutcomes, callbackRaises \in BOOLEAN :
           bulk_annotate_step(o, callbackRaises) /\ UNCHANGED otherVars
    \/ bulk_annotate_return /\ UNCHANGED otherVars
    \/ results_consumed /\ UNCHANGED otherVars

Spec == Init /\ [][Next]_vars

(***************************************************************************)
(* Properties of bulk_annotate.                                            *)
(***************************************************************************)
Charts == 1..Len(steps)
ResultsOf(chart) == {n \in 1..Len(results) : resultOwner[n] = chart}
FailuresOf(chart) == {n \in ResultsOf(chart) : ~results[n][2]}
RaisedOther(chart) ==
    steps[chart].ca = "raised_other" \/ steps[chart].cb = "raised"
\* The positions of the charts whose create_annotation call returned a pair.
ReturnedCharts == SelectSeq([j \in Charts |-> j], LAMBDA j : steps[j].ca = "returned")

\* C1: a bulk run in which every create_annotation call returned a pair (no
\* authentication error) returns exactly len(chart_ids) results, the i-th
\* carrying chart_ids[i].
C1_OneResultPerChartInOrder ==
    (pc = "done" /\ \A j \in Charts : steps[j].ca = "returned")
        => /\ Len(results) = Len(chart_ids)
           /\ \A n \in 1..Len(results) :
                  n <= Len(chart_ids) /\ results[n][1] = chart_ids[n]

\* C2: when create_annotation raises the authentication error on the k-th
\* chart, the run returns exactly k results, the k-th being
\* (chart_ids[k], False, "Authentication failed"), and create_annotation is
\* called for no chart after the k-th.
C2_AuthErrorStopsAtK ==
    pc = "done" =>
        \A k \in Charts :
            steps[k].ca = "raised_auth"
                => /\ Len(steps) = k
                   /\ Len(results) = k
                   /\ results[k] = <<chart_ids[k], FALSE, <<"Authentication failed">> >>

\* C3: a chart whose processing raised an exception other than the
\* authentication error has one failure result, every other chart keeps the
\* results it had, and the loop goes on to the next chart.
C3_OtherExceptionOneFailure ==
    /\ \A j \in Charts :
           RaisedOther(j) => Cardinality(FailuresOf(j)) = 1
    /\ pc = "done" =>
           \A j \in Charts :
               (RaisedOther(j) /\ j < Len(chart_ids)) => Len(steps) > j

\* C4 as claimed, on the runs in which the callback itself always returns: a
\* run given a progress callback has called it as many times as it returns
\* results, the chart stopped by the authentication error included.
C4_CallbackCountEqualsResults ==
    (pc = "done" /\ hasCallback /\ \A j \in Charts : steps[j].cb # "raised")
        => Len(cbCalls) = Len(results)

\* C4 as amended: the progress callback is called exactly once for each chart
\* whose create_annotation call returned a pair, in order, with (the chart's
\* 1-based position, len(chart_ids)); it is not called for the chart whose
\* call raised the authentication error, nor when no callback was supplied.
C4_CallbackPerReturnedChart ==
    /\ hasCallback =>
           /\ Len(cbCalls) = Len(ReturnedCharts)
           /\ \A n \in 1..Len(cbCalls) :
                  cbCalls[n] = <<ReturnedCharts[n], Len(chart_ids)>>
    /\ ~hasCallback => cbCalls = <<>>

\* C4's case: a run with a callback that was stopped by the authentication
\* error after at least one call of the callback.
C4_Witness ==
    /\ pc = "done"
    /\ hasCallback
    /\ broke
    /\ Len(cbCalls) >= 1
    /\ Len(cbCalls) < Len(results)

(***************************************************************************)
(* Properties of create_annotation and test_connection.                    *)
(***************************************************************************)
\* lastResult is a create_annotation call's: only that method sends a POST.
CreateAnnotationCalled == lastRequest.method = "POST"

\* C5: create_annotation raises only the authentication error, and only on
\* HTTP 401; a timeout, a connection error, exhausted retries, any other
\* exception of the transport and a non-JSON body on HTTP 200 all come back
\* as a (False, message) pair.
C5_OnlyAuthErrorPropagates ==
    CreateAnnotationCalled =>
        /\ lastResult.kind \in {"return", "raise"}
        /\ lastResult.kind = "raise"
               => /\ lastResult.exc = "AmplitudeAuthenticationError"
                  /\ lastOutcome.kind = "response"
                  /\ lastOutcome.status = 401
        /\ (\/ lastOutcome.kind \in TransportErrorKinds
            \/ (lastOutcome.kind = "response" /\ lastOutcome.status = 200
                    /\ lastOutcome.body \in {B_NOT_JSON, B_JSON_LIST}))
               => (lastResult.kind = "return" /\ ~lastResult.ok)

\* C5's case: retries were exhausted and the call returned a failure pair.
C5_Witness ==
    /\ CreateAnnotationCalled
    /\ lastOutcome.kind = "RetryError"
    /\ lastResult = Return(FALSE, <<"Error: ", "RetryError">>)

\* C6: create_annotation classifies the final response: 200 with success=true
\* returns (True, "Annotation created: <id>"); 200 with success false or
\* absent returns (False, "API returned success=false"); 401 raises the
\* authentication error; any other status s returns (False, "HTTP s: body");
\* True is returned in no other case.
C6_ResponseClassification ==
    CreateAnnotationCalled =>
        LET o == lastOutcome
            j == Json(o.body)
            is200 == o.kind = "response" /\ o.status = 200
        IN  /\ (is200 /\ j.object /\ j.success = "true")
                   => /\ lastResult.kind = "return"
                      /\ lastResult.ok
                      /\ lastResult.msg[1] = "Annotation created: "
            /\ (is200 /\ j.object /\ j.success \in {"false", "absent"})
                   => lastResult = Return(FALSE, <<"API returned success=false">>)
            /\ (o.kind = "response" /\ o.status = 401)
                   => (lastResult.kind = "raise"
                          /\ lastResult.exc = "AmplitudeAuthenticationError")
            /\ (o.kind = "response" /\ o.status \notin {200, 401})
                   => lastResult = Return(FALSE, <<"HTTP ", IntStr(o.status), ": ", o.body>>)
            /\ (lastResult.kind = "return" /\ lastResult.ok)
                   => (is200 /\ j.object /\ j.success = "true")

\* The kinds of failure whose test_connection messages the claim tells apart.
FailureClass(o) ==
    IF o.kind = "response"
    THEN IF o.status = 200 THEN "ok"
         ELSE IF o.status = 401 THEN "401" ELSE "other status"
    ELSE IF o.kind \in {"ReadTimeout", "ConnectTimeout"} THEN "timeout"
    ELSE IF o.kind = "ConnectionError" THEN "connection error"
    ELSE "other exception"
ToldApart == {"401", "other status", "timeout", "connection error"}

ChartIdProvided(a) == a.chart_id # None
DetailsProvided(a) == a.details # ""

\* C8: every create_annotation request carries app_id (= project_id), date and
\* label; it carries chart_id iff a chart_id was provided, and details iff
\* details were provided.
C8_RequestParams ==
    CreateAnnotationCalled =>
        LET p == lastRequest.params
            a == lastArgs
        IN  /\ {"app_id", "date", "label"} \subseteq DOMAIN p
            /\ p["app_id"] = a.project_id
            /\ p["label"] = a.label
            /\ ("chart_id" \in DOMAIN p) <=> ChartIdProvided(a)
            /\ ("details" \in DOMAIN p) <=> DetailsProvided(a)

(***************************************************************************)
(* Properties of the constructor and of the context manager.               *)
(***************************************************************************)
\* C9: no client exists with a region outside {US, EU}: constructing one
\* raises and leaves session and client as they were, with no request sent;
\* every request of an EU client goes to https://analytics.eu.amplitude.com
\* and every request of a US client to https://amplitude.com.
C9_RegionDecidesHost ==
    /\ [](client.made => client.region \in {"US", "EU"})
    /\ []((lastRequest.method # "none" /\ client.region = "EU")
              => lastRequest.url = "https://analytics.eu.amplitude.com/api/2/annotations")
    /\ []((lastRequest.method # "none" /\ client.region = "US")
              => lastRequest.url = "https://amplitude.com/api/2/annotations")
    /\ [][(lastCall' = "__init__" /\ lastResult'.kind = "raise")
              => (/\ lastResult'.msg[2] \notin {"US", "EU"}
                  /\ session' = session
                  /\ client' = client
                  /\ lastRequest' = NoRequest)]_vars

\* C9's case: a client constructed for the EU has sent a request.
C9_Witness ==
    /\ client.made
    /\ client.region = "EU"
    /\ lastRequest.method = "POST"
    /\ lastRequest.url = "https://analytics.eu.amplitude.com/api/2/annotations"

\* C10: whenever a with block on the client is left, normally or by an
\* exception, the session is closed; and a close() on a session that is
\* already closed leaves it closed and raises nothing.
C10_WithBlockClosesSession ==
    [][/\ (withState = "inside" /\ withState' = "outside") => session' = "closed"
       /\ (lastCall' = "close" /\ lastCall # "close" /\ session = "closed")
              => (session' = "closed" /\ lastResult'.kind = "return")]_vars

\* C10's case: the block was left by the authentication error and the session
\* is closed.
C10_Witness ==
    /\ lastCall = "__exit__"
    /\ lastResult.kind = "raise"
    /\ lastResult.exc = "AmplitudeAuthenticationError"
    /\ withState = "outside"
    /\ session = "closed"

(***************************************************************************)
(* The application (amplitude_bulk_annotator.py): the clients it           *)
(* constructs and the worker threads it hands them to.  A click needs its  *)
(* button enabled and no window-modal progress dialog open; the timer and  *)
(* the workers' signals come whenever they come.                           *)
(***************************************************************************)
MaxClients == 4
AppRegions == {"US", "EU"}

\* AmplitudeAPIClient(api_key=..., secret_key=..., region=...) as the
\* application holds it: the region it was made for and its session.
AppClient(region) == [region |-> region, session |-> "open"]

\* APIWorker(api_client, operation), started.
APIWorker(api_client, operation) == [operation |-> operation, api_client |-> api_client]

\* ConfigTab.__init__: load_config enables the test button when the keys are
\* the environment's (_validate_inputs), and a complete environment arms the
\* single-shot timer of auto_test_connection.
ConfigTab_init(credentialsFromEnv, completeEnv) ==
    /\ ~ui.made
    /\ ui' = [ui EXCEPT !.made = TRUE, !.credentials_from_env = credentialsFromEnv,
                        !.test_btn = credentialsFromEnv, !.timer = completeEnv]
    /\ UNCHANGED <<appClients, configTabClient, mainClient, workers>>

\* _validate_inputs, the slot of the input fields' textChanged: it enables
\* the test button whenever the keys are the environment's, and else when
\* the fields are filled in.  A window-modal progress dialog takes no input
\* away from the timer or the workers, only from the user.
validate_inputs(filled) ==
    /\ ui.made
    /\ ~ui.progress
    /\ ui' = [ui EXCEPT !.test_btn = ui.credentials_from_env \/ filled]
    /\ UNCHANGED <<appClients, configTabClient, mainClient, workers>>

\* ConfigTab.test_connection: without both keys it only updates the status
\* bar; with them it constructs a new client, stores it in self.api_client,
\* starts a worker that tests the connection and disables the test button.
\* The timer is single-shot: after the call it made it is no longer pending.
ConfigTab_test_connection(haveKeys, region, timer) ==
    /\ ui.made
    /\ Len(appClients) < MaxClients
    /\ ui.credentials_from_env => haveKeys
    /\ IF haveKeys
       THEN /\ appClients' = Append(appClients, AppClient(region))
            /\ configTabClient' = Len(appClients) + 1
            /\ workers' = workers \cup {APIWorker(Len(appClients) + 1, "test_connection")}
            /\ ui' = [ui EXCEPT !.test_btn = FALSE, !.timer = timer]
            /\ UNCHANGED mainClient
       ELSE /\ region = "US"
            /\ ui' = [ui EXCEPT !.timer = timer]
            /\ UNCHANGED <<appClients, configTabClient, mainClient, workers>>

\* A click on Test Connection and Save.
test_btn_clicked(haveKeys, region) ==
    /\ ui.test_btn
    /\ ~ui.progress
    /\ ConfigTab_test_connection(haveKeys, region, ui.timer)

\* The single-shot timer fires: auto_test_connection, which calls
\* test_connection (has_complete_env_config() is cached and still holds).
auto_test_connection(haveKeys, region) ==
    /\ ui.timer
    /\ ConfigTab_test_connection(haveKeys, region, FALSE)

\* A test worker has finished: on_test_complete enables the test button, and
\* with a success and a project ID emits configValid(True), whose slot
\* on_config_valid takes the ConfigTab's client as the main window's.
on_test_complete(w, success, haveProjectId) ==
    /\ w \in workers
    /\ w.operation = "test_connection"
    /\ workers' = workers \ {w}
    /\ ui' = [ui EXCEPT !.test_btn = TRUE]
    /\ mainClient' = IF success /\ haveProjectId THEN configTabClient ELSE mainClient
    /\ UNCHANGED <<appClients, configTabClient>>

\* apply_annotations past its four checks: shows the progress dialog and
\* starts a bulk_annotate worker on the main window's client.  The project
\* ID, the selected chart IDs and the label are taken as present (the
\* selection step itself is SpecSelection's).
apply_annotations ==
    /\ ui.made
    /\ ~ui.progress
    /\ mainClient # 0
    /\ workers' = workers \cup {APIWorker(mainClient, "bulk_annotate")}
    /\ ui' = [ui EXCEPT !.progress = TRUE, !.run = "running", !.report = "none"]
    /\ UNCHANGED <<appClients, configTabClient, mainClient>>

\* The bulk worker has finished: on_annotations_complete closes the progress
\* dialog, lets go of the worker and shows the completion dialog, "Success!"
\* or "Partial Success".
on_annotations_complete(w, success) ==
    /\ w \in workers
    /\ w.operation = "bulk_annotate"
    /\ workers' = workers \ {w}
    /\ ui' = [ui EXCEPT !.progress = FALSE, !.run = "finished",
                        !.report = IF success THEN "Success!" ELSE "Partial Success"]
    /\ UNCHANGED <<appClients, configTabClient, mainClient>>

\* Cancel in the progress dialog: progress.canceled is connected to
\* worker.terminate, and the dialog hides itself.  Nothing else is connected.
progress_canceled(w) ==
    /\ w \in workers
    /\ w.operation = "bulk_annotate"
    /\ ui.progress
    /\ workers' = workers \ {w}
    /\ ui' = [ui EXCEPT !.progress = FALSE, !.run = "canceled"]
    /\ UNCHANGED <<appClients, configTabClient, mainClient>>

AppNext ==
    \/ \E credentialsFromEnv \in BOOLEAN, completeEnv \in BOOLEAN :
           ConfigTab_init(credentialsFromEnv, completeEnv)
               /\ UNCHANGED <<clientVars, callVars, bulkVars, retryVars, validatorVars, configVars, workerVars, selVars>>
    \/ \E filled \in BOOLEAN :
           validate_inputs(filled)
               /\ UNCHANGED <<clientVars, callVars, bulkVars, retryVars, validatorVars, configVars, workerVars, selVars>>
    \/ \E haveKeys \in BOOLEAN, region \in AppRegions :
           test_btn_clicked(haveKeys, region)
               /\ UNCHANGED <<clientVars, callVars, bulkVars, retryVars, validatorVars, configVars, workerVars, selVars>>
    \/ \E haveKeys \in BOOLEAN, region \in AppRegions :
           auto_test_connection(haveKeys, region)
               /\ UNCHANGED <<clientVars, callVars, bulkVars, retryVars, validatorVars, configVars, workerVars, selVars>>
    \/ \E w \in workers, success \in BOOLEAN, haveProjectId \in BOOLEAN :
           on_test_complete(w, success, haveProjectId)
               /\ UNCHANGED <<clientVars, callVars, bulkVars, retryVars, validatorVars, configVars, workerVars, selVars>>
    \/ apply_annotations /\ UNCHANGED <<clientVars, callVars, bulkVars, retryVars, validatorVars, configVars, workerVars, selVars>>
    \/ \E w \in workers, success \in BOOLEAN :
           on_annotations_complete(w, success)
               /\ UNCHANGED <<clientVars, callVars, bulkVars, retryVars, validatorVars, configVars, workerVars, selVars>>
    \/ \E w \in workers :
           progress_canceled(w)
               /\ UNCHANGED <<clientVars, callVars, bulkVars, retryVars, validatorVars, configVars, workerVars, selVars>>

SpecApp == Init /\ [][AppNext]_vars

\* The clients the application still holds: the ConfigTab's and the main
\* window's (which is the selection tab's too).
CurrentClients == {configTabClient, mainClient} \ {0}

\* C22: at most one APIWorker is running at any moment.
C22_AtMostOneWorker == Cardinality(workers) <= 1

\* C23: a bulk run that was canceled from the progress dialog is reported to
\* the user as incomplete, and never as successful.
C23_CanceledRunReportedIncomplete ==
    ui.run = "canceled" => (ui.report = "Partial Success" /\ ui.report # "Success!")

\* C11: every client the application constructed and no longer holds as its
\* current client has had close called on it.
C11_NoClientLeaked ==
    \A k \in 1..Len(appClients) :
        k \notin CurrentClients => appClients[k].session = "closed"

(***************************************************************************)
(* The client with its transport seen one HTTP attempt at a time: what     *)
(* test_connection and each create_annotation of a bulk run get from the   *)
(* session is what the retry strategy makes of the attempts.               *)
(***************************************************************************)
MaxRetryCharts == 2
RetryChartIdLists == UNION {[1..n -> ChartIdPool] : n \in 0..MaxRetryCharts}

\* The caller whose request may be in hand: test_connection sends a GET,
\* a bulk run's create_annotation a POST for the chart it has reached.
MaySend(method) ==
    /\ client.made
    /\ \/ method = "GET" /\ pc = "idle"
       \/ method = "POST" /\ pc = "loop" /\ ~broke /\ i < Len(chart_ids)

\* What the server can have made of an attempt that ended in ev: a response
\* comes from a server that received the request, and the 200 with the
\* created annotation from one that created it; a read timeout ends an
\* attempt whose request was sent, which the server may have received and
\* may have processed; an attempt that never connected sent nothing.
ServerSaw(ev) ==
    IF ev.kind = "response"
    THEN IF ev.status = 200 THEN {"created"} ELSE {"received"}
    ELSE IF ev.kind = "ReadTimeoutError" THEN {"nothing", "received", "created"}
    ELSE {"nothing"}

\* One HTTP attempt of the request in hand, the first included.
http_attempt(method, ev, saw) ==
    /\ MaySend(method)
    /\ \/ rq.state = "idle"
       \/ rq.state = "retrying" /\ rq.method = method
    /\ saw \in ServerSaw(ev)
    /\ rq' = AfterAttempt(IF rq.state = "idle" THEN NewRq(method) ELSE rq, ev)
    /\ server' = IF method = "POST" /\ saw # "nothing"
                 THEN [received |-> server.received + 1,
                       created |-> server.created + (IF saw = "created" THEN 1 ELSE 0)]
                 ELSE server
    /\ UNCHANGED <<clientVars, callVars, bulkVars, appVars, validatorVars, configVars, httpAttempts, workerVars, selVars>>

\* The session method returns or raises, and the client method goes on.
RqHandedBack == [rq EXCEPT !.state = "idle"]

test_connection_retried ==
    /\ rq.state = "settled"
    /\ rq.method = "GET"
    /\ test_connection(SessionOutcome(rq))
    /\ rq' = RqHandedBack
    /\ UNCHANGED <<appVars, validatorVars, configVars, httpAttempts, server, workerVars, selVars>>

bulk_annotate_step_retried(callbackRaises) ==
    /\ rq.state = "settled"
    /\ rq.method = "POST"
    /\ bulk_annotate_step(SessionOutcome(rq), callbackRaises)
    /\ rq' = RqHandedBack
    /\ httpAttempts' = httpAttempts + rq.attempts
    /\ server' = NoPosts
    /\ UNCHANGED <<appVars, validatorVars, configVars, workerVars, selVars>>

RetryNext ==
    \/ \E k \in ApiKeys, s \in SecretKeys, region \in VALID_REGIONS :
           /\ rq.state = "idle"
           /\ client_init(k, s, region)
           /\ UNCHANGED otherVars
    \/ \E method \in {"GET", "POST"}, ev \in AttemptEvents :
           \E saw \in ServerSaw(ev) : http_attempt(method, ev, saw)
    \/ test_connection_retried
    \/ \E callbackRaises \in BOOLEAN : bulk_annotate_step_retried(callbackRaises)
    \/ \E p \in ProjectIds, ids \in RetryChartIdLists, d \in Dates, l \in Labels,
          t \in DetailsInputs, cb \in BOOLEAN :
           /\ rq.state = "idle"
           /\ bulk_annotate_call(p, ids, d, l, t, cb)
           /\ rq' = NoRq
           /\ httpAttempts' = 0
           /\ server' = NoPosts
           /\ UNCHANGED <<appVars, validatorVars, configVars, workerVars, selVars>>
    \/ bulk_annotate_return /\ UNCHANGED otherVars
    \/ /\ results_consumed
       /\ rq' = NoRq
       /\ httpAttempts' = 0
       /\ server' = NoPosts
       /\ UNCHANGED <<appVars, validatorVars, configVars, workerVars, selVars>>

SpecRetry == Init /\ [][RetryNext]_vars

\* The bulk run has just recorded the chart whose request exhausted its retries.
ChartExhausted ==
    /\ pc = "loop"
    /\ i >= 1
    /\ rq.state = "idle"
    /\ rq.method = "POST"
    /\ IsExhausted(rq)

\* C12: when the retries of a chart's request are exhausted (the server kept
\* answering a status of the force list, or the attempts kept timing out or
\* being refused), create_annotation returns a (False, message) pair and
\* raises nothing, bulk_annotate records a failure with that message for the
\* chart, and the loop goes on: the next call is for the next chart.
C12_ExhaustedRetriesAreAFailurePair ==
    /\ [](ChartExhausted
             => /\ lastResult.kind = "return"
                /\ ~lastResult.ok
                /\ ~broke
                /\ \E n \in ResultsOf(i) :
                       results[n] = <<chart_ids[i], FALSE, lastResult.msg>>)
    /\ [][(ChartExhausted /\ i' # i)
             => (i' = i + 1 /\ lastArgs'.chart_id = chart_ids[i + 1])]_vars

\* C12's case: the first of two charts exhausted its retries on 503 answers,
\* has its failure result, and the second chart has been processed.
C12_Witness ==
    /\ pc = "loop"
    /\ Len(chart_ids) = 2
    /\ i = 2
    /\ Len(results) = 2
    /\ results[1] = <<chart_ids[1], FALSE, <<"Error: ", "RetryError">> >>
    /\ results[2][2]

\* C13: one client call makes at most 3 HTTP attempts, retries only after a
\* status of the force list or a transport error and never after a 401, and
\* a bulk run makes at most 3 * len(chart_ids) HTTP attempts.
C13_AtMostThreeAttempts ==
    /\ rq.attempts <= 3
    /\ rq.state = "retrying"
           => (rq.last.kind # "response" \/ rq.last.status \in {429, 500, 502, 503, 504})
    /\ pc \in {"loop", "done"} => httpAttempts <= 3 * Len(chart_ids)

(***************************************************************************)
(* extract_chart_ids and validate_chart_ids on the texts and lists a       *)
(* caller may pass.  A text is put together from a few pieces.             *)
(***************************************************************************)
MaxPieces == 4
MaxCandidates == 3

S_x == <<"x">>
S_ab1 == <<"a", "b", "1">>
S_x_com == <<"x", ".", "c", "o", "m">>
TextPieces == {S_x, S_ab1, <<",">>, <<" ">>, <<"\n">>, S_amplitude_com, S_x_com, S_chart}

RECURSIVE Concat(_)
Concat(pieces) == IF pieces = <<>> THEN <<>> ELSE Head(pieces) \o Concat(Tail(pieces))

\* "https://app.x.com/analytics/demo/chart/ez25o7zy"
S_example_url ==
    <<"h", "t", "t", "p", "s", ":", "/", "/", "a", "p", "p", ".">> \o S_x_com
        \o <<"/", "a", "n", "a", "l", "y", "t", "i", "c", "s", "/", "d", "e", "m", "o">>
        \o S_chart \o <<"e", "z", "2", "5", "o", "7", "z", "y">>

Texts == {Concat(ps) : ps \in UNION {[1..n -> TextPieces] : n \in 0..MaxPieces}}
             \cup {S_example_url}

\* Candidates handed to validate_chart_ids directly.
CandidatePool == {S_ab1, <<"a", "b">>, <<"a", "b", "1", "\n">>, <<"a", "!", "c">>,
                  <<"a", "b", "1", "!">>, <<>>}
CandidateLists == UNION {[1..n -> CandidatePool] : n \in 0..MaxCandidates}

\* The caller has a text to extract from.
text_entered(text) ==
    /\ vpc = "start"
    /\ vpc' = "text"
    /\ input_text' = text
    /\ unique_ids' = <<>>
    /\ candidate_ids' = <<>>
    /\ valid_ids' = <<>>
    /\ invalid_ids' = <<>>

extract_chart_ids ==
    /\ vpc = "text"
    /\ vpc' = "extracted"
    /\ unique_ids' \in ListOfSet(extract_chart_ids_list(input_text))
    /\ UNCHANGED <<input_text, candidate_ids, valid_ids, invalid_ids>>

\* validate_chart_ids(chart_ids), on the list just extracted or on any list,
\* and a second time on the list it was just called on.
validate_chart_ids(ids) ==
    /\ \/ vpc = "extracted" /\ ids = unique_ids /\ vpc' = "validated"
       \/ vpc = "start" /\ ids \in CandidateLists /\ vpc' = "validated"
       \/ vpc = "validated" /\ ids = candidate_ids /\ vpc' = "validated_again"
    /\ candidate_ids' = ids
    /\ valid_ids' = validate_chart_ids_result(ids)[1]
    /\ invalid_ids' = validate_chart_ids_result(ids)[2]
    /\ UNCHANGED <<input_text, unique_ids>>

ValidatorsNext ==
    \/ /\ vpc = "start"
       /\ \E text \in Texts : text_entered(text)
       /\ UNCHANGED <<clientVars, callVars, bulkVars, appVars, retryVars, configVars, workerVars, selVars>>
    \/ extract_chart_ids /\ UNCHANGED <<clientVars, callVars, bulkVars, appVars, retryVars, configVars, workerVars, selVars>>
    \/ /\ vpc = "start"
       /\ \E ids \in CandidateLists : validate_chart_ids(ids)
       /\ UNCHANGED <<clientVars, callVars, bulkVars, appVars, retryVars, configVars, workerVars, selVars>>
    \/ /\ vpc \in {"extracted", "validated"}
       /\ \E ids \in {unique_ids, candidate_ids} : validate_chart_ids(ids)
       /\ UNCHANGED <<clientVars, callVars, bulkVars, appVars, retryVars, configVars, workerVars, selVars>>

SpecValidators == Init /\ [][ValidatorsNext]_vars

(***************************************************************************)
(* Properties of extract_chart_ids and validate_chart_ids.                 *)
(***************************************************************************)
\* ^[a-zA-Z0-9_-]+$ on the whole string.
IsIdentifier(str) == str # <<>> /\ \A k \in 1..Len(str) : str[k] \in IdChars

Extracted == vpc \in {"extracted", "validated", "validated_again"} /\ input_text # <<>>
Validated == vpc \in {"validated", "validated_again"}

\* C14: every string extract_chart_ids returns is non-empty and made of
\* characters of [a-zA-Z0-9_-] only, and no string occurs twice in the
\* result, however often it occurs in the input.
C14_ExtractedIdsAreUniqueIdentifiers ==
    Extracted =>
        /\ \A k \in 1..Len(unique_ids) : IsIdentifier(unique_ids[k])
        /\ \A a, b \in 1..Len(unique_ids) : a # b => unique_ids[a] # unique_ids[b]

\* C14's case: the text "ab1,ab1" gave the one-element list ["ab1"].
C14_Witness ==
    /\ vpc = "extracted"
    /\ input_text = S_ab1 \o <<",">> \o S_ab1
    /\ unique_ids = <<S_ab1>>

\* The stripped non-blank lines of the text.
LinesOf(text) ==
    {strip(l) : l \in Range(split_newline(strip(text)))} \ {<<>>}
\* The line is treated as a URL.
TreatedAsUrl(line) == Contains(line, S_amplitude_com) /\ Contains(line, S_chart)
\* The tokens of a line: what is left between runs of commas and whitespace.
TokensOf(line) == Range(re_split(line)) \ {<<>>}

\* C15: of every non-blank line not treated as a URL, each token between
\* commas and whitespace that matches ^[a-zA-Z0-9_-]+$ (any length >= 1) is in
\* the result, and a text without URL lines yields nothing but such tokens.
C15_EveryIdentifierTokenKept ==
    Extracted =>
        LET plain == {l \in LinesOf(input_text) : ~TreatedAsUrl(l)}
            kept == {t \in UNION {TokensOf(l) : l \in plain} : IsIdentifier(t)}
        IN  /\ kept \subseteq Range(unique_ids)
            /\ plain = LinesOf(input_text) => Range(unique_ids) \subseteq kept

\* The host markers of the claim: the code's, and the host of the spec's example.
HostMarkers == {S_amplitude_com, S_x_com}

\* A host marker of the line ends before its first /chart/<id> segment.
HostThenChartId(l) ==
    \E h \in HostMarkers, p \in 1..Len(l), q \in 1..Len(l) :
        /\ p + Len(h) <= q
        /\ SubSeq(l, p, p + Len(h) - 1) = h
        /\ ChartUrlMatchAt(l, q)

\* C16: for a line with a recognized host marker and a /chart/<id> segment,
\* such as https://app.x.com/analytics/demo/chart/ez25o7zy, the result
\* contains <id>, the run of identifier characters that follows /chart/.
C16_UrlChartIdExtracted ==
    Extracted =>
        \A l \in LinesOf(input_text) :
            HostThenChartId(l) => re_search_CHART_URL_PATTERN(l) \in Range(unique_ids)

\* The elements of seq at the positions whose mask value is b, in order.
RECURSIVE Pick(_, _, _)
Pick(seq, mask, b) ==
    IF seq = <<>> THEN <<>>
    ELSE (IF mask[1] = b THEN <<Head(seq)>> ELSE <<>>)
             \o Pick(Tail(seq), [k \in 1..(Len(seq) - 1) |-> mask[k + 1]], b)

\* C17: validate_chart_ids splits the positions of its input between valid
\* and invalid, each list keeping the input order, so that the lengths add
\* up to the input's; and a second call on the same list returns the same
\* two lists.
C17_ValidateIsAStablePartition ==
    /\ [](Validated =>
             /\ Len(valid_ids) + Len(invalid_ids) = Len(candidate_ids)
             /\ \E mask \in [1..Len(candidate_ids) -> BOOLEAN] :
                    /\ valid_ids = Pick(candidate_ids, mask, TRUE)
                    /\ invalid_ids = Pick(candidate_ids, mask, FALSE))
    /\ [][vpc' = "validated_again"
             => (/\ candidate_ids' = candidate_ids
                 /\ valid_ids' = valid_ids
                 /\ invalid_ids' = invalid_ids)]_vars

\* C17's case: a list with a repeated valid ID around an invalid one, validated twice.
C17_Witness ==
    /\ vpc = "validated_again"
    /\ candidate_ids = <<S_ab1, <<"a", "b">>, S_ab1>>
    /\ valid_ids = <<S_ab1, S_ab1>>
    /\ invalid_ids = << <<"a", "b">> >>

\* C18: a candidate is in valid iff the whole string is made of characters of
\* [a-zA-Z0-9_-] and has length at least 3; every other string is in invalid.
C18_ValidIffWholeStringMatches ==
    Validated =>
        \A k \in 1..Len(candidate_ids) :
            LET c == candidate_ids[k] IN
            IF IsIdentifier(c) /\ Len(c) >= 3
            THEN c \in Range(valid_ids) /\ c \notin Range(invalid_ids)
            ELSE c \in Range(invalid_ids) /\ c \notin Range(valid_ids)

(***************************************************************************)
(* ConfigManager.load_config under every environment and preference file.  *)
(***************************************************************************)
EnvApiKeys == {None, "", "ak_env"}
EnvSecretKeys == {None, "sk_env"}
EnvProjectIds == {PyNone, PyStr(<<>>), PyStr(<<"4", "2">>), PyStr(<<"4", "x">>)}
EnvRegions == {None, "US", "EU", "APAC"}
Environments ==
    [AMPLITUDE_API_KEY : EnvApiKeys, AMPLITUDE_SECRET_KEY : EnvSecretKeys,
     AMPLITUDE_PROJECT_ID : EnvProjectIds, AMPLITUDE_REGION : EnvRegions]

PrefsRegions == {JAbsent, PyStr("US"), PyStr("EU"), PyStr("APAC"), PyInt(5)}
PrefsProjectIds == {JAbsent, PyStr(<<"7">>), PyStr(<<"7", "x">>), PyInt(9), PyNone}
ConfigFiles ==
    {[kind |-> k, prefs |-> NoFile.prefs] :
        k \in {"missing", "unreadable", "malformed", "list"}}
    \cup {[kind |-> "object", prefs |-> [region |-> r, project_id |-> q]] :
              r \in PrefsRegions, q \in PrefsProjectIds}

\* The process starts with an environment and a preference file.
process_started(env, file) ==
    /\ cpc = "start"
    /\ cpc' = "ready"
    /\ environ' = env
    /\ config_file' = file
    /\ UNCHANGED <<config, form, prefs_written>>

load_config ==
    /\ cpc = "ready"
    /\ cpc' = "loaded"
    /\ config' = load_config_result(environ, config_file)
    /\ UNCHANGED <<environ, config_file, form, prefs_written>>

ConfigNext ==
    \/ /\ cpc = "start"
       /\ \E env \in Environments, file \in ConfigFiles : process_started(env, file)
       /\ UNCHANGED <<clientVars, callVars, bulkVars, appVars, retryVars, validatorVars, workerVars, selVars>>
    \/ /\ load_config
       /\ UNCHANGED <<clientVars, callVars, bulkVars, appVars, retryVars, validatorVars, workerVars, selVars>>

SpecConfig == Init /\ [][ConfigNext]_vars

(***************************************************************************)
(* Properties of load_config.                                              *)
(***************************************************************************)
ConfigLoaded == cpc = "loaded" /\ config.kind = "return"

\* Well-formed values of the two sources.
EnvProjectIdWellFormed ==
    /\ environ.AMPLITUDE_PROJECT_ID.type = "str"
    /\ isdigit(environ.AMPLITUDE_PROJECT_ID.val)
EnvRegionWellFormed == environ.AMPLITUDE_REGION \in {"US", "EU"}
FileReadable == config_file.kind = "object"
FileRegionValid ==
    /\ FileReadable
    /\ config_file.prefs.region.type = "str"
    /\ config_file.prefs.region.val \in {"US", "EU"}
FileProjectId ==
    LET q == config_file.prefs.project_id IN
    IF FileReadable /\ q.type = "str" /\ isdigit(q.val) THEN PyInt(int(q.val))
    ELSE IF FileReadable /\ q.type = "int" THEN q
    ELSE PyNone

\* C19: each field whose environment variable holds a well-formed value has
\* that value in the configuration load_config returns, whatever the file and
\* the other variables hold; a field whose variable is not set takes the
\* preference file's value, else stays empty (the region: the default).
C19_EnvironmentWinsPerField ==
    ConfigLoaded =>
        LET c == config.config IN
        /\ Truthy(environ.AMPLITUDE_API_KEY) => c.api_key = environ.AMPLITUDE_API_KEY
        /\ Truthy(environ.AMPLITUDE_SECRET_KEY)
               => c.secret_key = environ.AMPLITUDE_SECRET_KEY
        /\ EnvProjectIdWellFormed
               => c.project_id = PyInt(int(environ.AMPLITUDE_PROJECT_ID.val))
        /\ EnvRegionWellFormed => c.region = environ.AMPLITUDE_REGION
        /\ environ.AMPLITUDE_API_KEY = None => c.api_key = None
        /\ environ.AMPLITUDE_SECRET_KEY = None => c.secret_key = None
        /\ environ.AMPLITUDE_PROJECT_ID = PyNone => c.project_id = FileProjectId
        /\ environ.AMPLITUDE_REGION = None
               => c.region = (IF FileRegionValid THEN config_file.prefs.region.val
                              ELSE "US")

\* C20: the configuration load_config returns has region US or EU, and US
\* when neither the environment nor the preference file supplies a valid
\* region, whatever the file is (missing, unreadable, no JSON, any value).
C20_RegionAlwaysValid ==
    ConfigLoaded =>
        /\ config.config.region \in {"US", "EU"}
        /\ (~EnvRegionWellFormed /\ ~FileRegionValid) => config.config.region = "US"

\* C20's case: the environment names the region APAC, the file is no JSON,
\* and the configuration has region US.
C20_Witness ==
    /\ ConfigLoaded
    /\ config.config.from_environment
    /\ environ.AMPLITUDE_REGION = "APAC"
    /\ config_file.kind = "malformed"
    /\ config.config.region = "US"

(***************************************************************************)
(* The preference file as ConfigTab and ConfigManager write it.  The       *)
(* environment is the one the process started with; the preference file   *)
(* it finds holds strings (it is one this application wrote, or none).     *)
(***************************************************************************)
FormEnvironments ==
    {env \in Environments :
        /\ env.AMPLITUDE_API_KEY # ""
        /\ env.AMPLITUDE_REGION \in {None, "EU"}
        /\ env.AMPLITUDE_SECRET_KEY = None => env.AMPLITUDE_API_KEY = None}
FormFiles ==
    {file \in ConfigFiles :
        /\ file.kind \notin {"list", "unreadable"}
        /\ file.prefs.region # PyStr("APAC")
        /\ file.prefs.region.type \in {"absent", "str"}
        /\ file.prefs.project_id.type \in {"absent", "str"}}
\* The project-ID texts a preference file of FormFiles may hold.
FormFiles_ProjectIds == {q \in PrefsProjectIds : q.type = "str"}
TypedApiKeys == {"", "ak_typed"}
TypedSecretKeys == {"", "sk_typed"}
TypedProjectIds == {<<>>, <<"7">>, <<"7", "x">>}
SavedProjectIds == {PyNone, PyStr(<<>>), PyStr(<<"7">>)}

FieldValues(field) ==
    CASE field = "api_key_input" -> TypedApiKeys
      [] field = "secret_key_input" -> TypedSecretKeys
      [] field = "region_combo" -> VALID_REGIONS
      [] field = "project_id_input" -> TypedProjectIds

\* ConfigTab.__init__: init_ui, then load_config.
ConfigTab_load_config ==
    /\ cpc = "ready"
    /\ cpc' = "form"
    /\ form' = ConfigTab_load_config_form(NoForm, environ, config_file)
    /\ UNCHANGED <<environ, config_file, config, prefs_written>>

\* The user types into a field that is enabled: the keys and the region when
\* the credentials are not the environment's, the project ID unless the
\* environment's was put there.
user_edits(field, value) ==
    /\ cpc \in {"form", "testing", "tested"}
    /\ \/ /\ field = "api_key_input"
          /\ ~form.credentials_from_env
          /\ value \in TypedApiKeys
          /\ form' = [form EXCEPT !.api_key_input = value]
       \/ /\ field = "secret_key_input"
          /\ ~form.credentials_from_env
          /\ value \in TypedSecretKeys
          /\ form' = [form EXCEPT !.secret_key_input = value]
       \/ /\ field = "region_combo"
          /\ ~form.credentials_from_env
          /\ value \in VALID_REGIONS
          /\ form' = [form EXCEPT !.region_combo = value]
       \/ /\ field = "project_id_input"
          /\ ~(form.credentials_from_env /\ EnvProjectIdTruthy(environ))
          /\ value \in TypedProjectIds
          /\ form' = [form EXCEPT !.project_id_input = value]
    /\ form' # form
    /\ UNCHANGED <<cpc, environ, config_file, config, prefs_written>>

HaveBothKeys_ApiKeyOnly(api_key, secret_key) == Truthy(api_key)

\* not (not api_key or not secret_key)
HaveBothKeys(api_key, secret_key) == Truthy(api_key) /\ Truthy(secret_key)

\* A .env file in the working directory, as far as the two keys go: each is
\* absent from the file or given a value, which may be empty.
NotInDotenv == "<not in .env>"
NoDotenv ==
    [exists |-> FALSE, AMPLITUDE_API_KEY |-> NotInDotenv,
     AMPLITUDE_SECRET_KEY |-> NotInDotenv]

\* load_dotenv(override=True): the variables the file names are set.
load_dotenv(env, dotenv) ==
    [env EXCEPT !.AMPLITUDE_API_KEY = IF dotenv.AMPLITUDE_API_KEY = NotInDotenv
                                      THEN @ ELSE dotenv.AMPLITUDE_API_KEY,
                !.AMPLITUDE_SECRET_KEY = IF dotenv.AMPLITUDE_SECRET_KEY = NotInDotenv
                                         THEN @ ELSE dotenv.AMPLITUDE_SECRET_KEY]

\* _refresh_env_variables, after load_dotenv: the form switches between the
\* environment's credentials and manual ones (whose line edits keep their text).
refresh_env_variables(f, env, file) ==
    IF Truthy(env.AMPLITUDE_API_KEY) /\ Truthy(env.AMPLITUDE_SECRET_KEY)
    THEN IF ~f.credentials_from_env THEN setup_env_credentials(f, env) ELSE f
    ELSE IF f.credentials_from_env THEN setup_manual_credentials(f, env, file) ELSE f

\* ConfigTab.test_connection: the .env file is read again if there is one; the
\* keys are the environment's or the fields'; without both it returns, with
\* both it constructs the client for the region of the combo box and starts
\* the test.
ConfigTab_test_started(dotenv) ==
    /\ cpc = "form"
    /\ environ' = IF dotenv.exists THEN load_dotenv(environ, dotenv) ELSE environ
    /\ form' = IF dotenv.exists THEN refresh_env_variables(form, environ', config_file)
               ELSE form
    /\ LET api_key == IF form'.credentials_from_env THEN environ'.AMPLITUDE_API_KEY
                      ELSE form'.api_key_input
           secret_key == IF form'.credentials_from_env THEN environ'.AMPLITUDE_SECRET_KEY
                         ELSE form'.secret_key_input
       IN  IF HaveBothKeys(api_key, secret_key)
           THEN /\ client' = NewClient(api_key, secret_key, form'.region_combo)
                /\ session' = "open"
                /\ cpc' = "testing"
                /\ lastCall' = "__init__"
                /\ lastArgs' = NoArgs
                /\ lastRequest' = NoRequest
                /\ lastOutcome' = NoOutcome
                /\ lastResult' = Return(TRUE, <<>>)
           ELSE UNCHANGED <<client, session, cpc, callVars>>
    /\ UNCHANGED <<config_file, config, prefs_written, withState, bulkVars>>

\* on_test_complete: a success with a project ID saves the preferences
\* (save_config, which logs an IOError and goes on) and emits
\* configValid(True), every other outcome configValid(False).
ConfigTab_on_test_complete(success, writable) ==
    /\ cpc \in {"testing", "tested"}
    /\ cpc' = "form"
    /\ prefs_written' = IF success /\ HasSelectedProjectId(form, environ) /\ writable
                        THEN Written("save_config", save_config_prefs(form, environ))
                        ELSE prefs_written
    /\ form' = [form EXCEPT !.config_valid = success /\ HasSelectedProjectId(form, environ)]
    /\ UNCHANGED <<environ, config_file, config>>

\* ConfigManager.save_preferences(region, project_id); an IOError is raised
\* as ConfigurationError.
save_preferences(region, project_id, writable) ==
    /\ cpc \in {"form", "testing"}
    /\ prefs_written' = IF writable
                        THEN Written("save_preferences", save_preferences_prefs(region, project_id, environ))
                        ELSE prefs_written
    /\ UNCHANGED <<cpc, environ, config_file, config, form>>

PrefsNext ==
    \/ /\ cpc = "start"
       /\ \E env \in FormEnvironments, file \in FormFiles : process_started(env, file)
       /\ UNCHANGED <<clientVars, callVars, bulkVars, appVars, retryVars, validatorVars, workerVars, selVars>>
    \/ /\ ConfigTab_load_config
       /\ UNCHANGED <<clientVars, callVars, bulkVars, appVars, retryVars, validatorVars, workerVars, selVars>>
    \/ /\ cpc \in {"form", "testing", "tested"}
       /\ \E field \in {"api_key_input", "secret_key_input", "region_combo",
                         "project_id_input"} :
              \E value \in FieldValues(field) : user_edits(field, value)
       /\ UNCHANGED <<clientVars, callVars, bulkVars, appVars, retryVars, validatorVars, workerVars, selVars>>
    \/ /\ ConfigTab_test_started(NoDotenv)
       /\ UNCHANGED <<appVars, retryVars, validatorVars, workerVars, selVars>>
    \/ /\ cpc = "testing"
       /\ \E success \in BOOLEAN, writable \in BOOLEAN :
              ConfigTab_on_test_complete(success, writable)
       /\ UNCHANGED <<clientVars, callVars, bulkVars, appVars, retryVars, validatorVars, workerVars, selVars>>
    \/ /\ cpc \in {"form", "testing"}
       /\ \E region \in VALID_REGIONS, project_id \in SavedProjectIds,
             writable \in BOOLEAN :
              save_preferences(region, project_id, writable)
       /\ UNCHANGED <<clientVars, callVars, bulkVars, appVars, retryVars, validatorVars, workerVars, selVars>>

SpecPrefs == Init /\ [][PrefsNext]_vars

\* The file written has the key region, holding a region, and no other key
\* but project_id, holding a project ID's text: nothing of the keys.
PrefsKeysAreRegionAndProjectId ==
    prefs_written.written =>
        LET prefs == prefs_written.prefs IN
        /\ "region" \in DOMAIN prefs
        /\ DOMAIN prefs \subseteq {"region", "project_id"}
        /\ prefs["region"] \in VALID_REGIONS
        /\ "project_id" \in DOMAIN prefs
               => prefs["project_id"] \in
                      TypedProjectIds \cup {q.val : q \in FormFiles_ProjectIds}

WorkerOperations == {"test_connection", "bulk_annotate", "delete_annotations"}
HandlerExceptions == {"AmplitudeAPIError", "AmplitudeAuthenticationError", "TypeError"}

\* worker.start(): run() begins.
worker_start(operation) ==
    /\ wk.state = "idle"
    /\ pc = "idle"
    /\ client.made
    /\ wk' = WorkerRun(operation, "running", <<>>, "-")
    /\ UNCHANGED <<clientVars, callVars, bulkVars>>

\* The else branch of run(): an unknown operation.
worker_unknown_operation ==
    /\ wk.state = "running"
    /\ wk.operation \notin {"test_connection", "bulk_annotate"}
    /\ wk' = [wk EXCEPT !.state = "done",
                        !.emitted = Append(@, <<FALSE, <<"Unknown operation: ", wk.operation>> >>)]
    /\ UNCHANGED <<clientVars, callVars, bulkVars>>

\* _handle_test_connection
worker_handle_test_connection(o) ==
    /\ wk.state = "running"
    /\ wk.operation = "test_connection"
    /\ test_connection(o)
    /\ wk' = [wk EXCEPT !.state = "done",
                        !.emitted = Append(@, <<test_connection_result(o).ok,
                                                test_connection_result(o).msg>>)]

\* _handle_bulk_annotate calls bulk_annotate with a progress callback.
worker_calls_bulk_annotate(project_id, ids, annotation_date, label, details) ==
    /\ wk.state = "running"
    /\ wk.operation = "bulk_annotate"
    /\ bulk_annotate_call(project_id, ids, annotation_date, label, details, TRUE)
    /\ wk' = [wk EXCEPT !.state = "in_call"]

\* bulk_annotate has returned: the summary is emitted.
worker_handle_bulk_annotate ==
    /\ wk.state = "in_call"
    /\ pc = "done"
    /\ wk' = [wk EXCEPT !.state = "done",
                        !.emitted = Append(@, bulk_summary(results))]
    /\ UNCHANGED <<clientVars, callVars, bulkVars>>

\* The handler's call raises: the except clauses of run().
worker_call_raises(exc) ==
    /\ wk.state = "running"
    /\ wk.operation \in {"test_connection", "bulk_annotate"}
    /\ wk' = [wk EXCEPT !.state = "done",
                        !.emitted = Append(@, run_except(exc, <<exc>>))]
    /\ UNCHANGED <<clientVars, callVars, bulkVars>>

\* The finished signal has been handled and the worker is let go of.
worker_deleted ==
    /\ wk.state = "done"
    /\ wk' = NoWorkerRun
    /\ IF pc = "done" THEN results_consumed ELSE UNCHANGED <<clientVars, callVars, bulkVars>>

WorkerNext ==
    \/ \E k \in ApiKeys, s \in SecretKeys, region \in VALID_REGIONS :
           /\ wk.state = "idle"
           /\ ~client.made
           /\ client_init(k, s, region)
           /\ UNCHANGED otherVars
    \/ /\ \E operation \in WorkerOperations : worker_start(operation)
       /\ UNCHANGED <<appVars, retryVars, validatorVars, configVars, selVars>>
    \/ /\ worker_unknown_operation
       /\ UNCHANGED <<appVars, retryVars, validatorVars, configVars, selVars>>
    \/ /\ \E o \in Outcomes : worker_handle_test_connection(o)
       /\ UNCHANGED <<appVars, retryVars, validatorVars, configVars, selVars>>
    \/ /\ wk.state = "running"
       /\ \E p \in ProjectIds, ids \in ChartIdLists, d \in Dates, l \in Labels,
             t \in DetailsInputs :
              worker_calls_bulk_annotate(p, ids, d, l, t)
       /\ UNCHANGED <<appVars, retryVars, validatorVars, configVars, selVars>>
    \/ /\ wk.state = "in_call"
       /\ \E o \in BulkOutcomes, callbackRaises \in BOOLEAN :
              bulk_annotate_step(o, callbackRaises)
       /\ UNCHANGED otherVars
    \/ /\ wk.state = "in_call"
       /\ bulk_annotate_return
       /\ UNCHANGED otherVars
    \/ /\ worker_handle_bulk_annotate
       /\ UNCHANGED <<appVars, retryVars, validatorVars, configVars, selVars>>
    \/ /\ \E exc \in HandlerExceptions : worker_call_raises(exc)
       /\ UNCHANGED <<appVars, retryVars, validatorVars, configVars, selVars>>
    \/ /\ worker_deleted
       /\ UNCHANGED <<appVars, retryVars, validatorVars, configVars, selVars>>

SpecWorker == Init /\ [][WorkerNext]_vars

\* C24: a worker whose run() has ended emitted finished exactly once and no
\* exception left run(), and no worker emits more than once; when
\* bulk_annotate returned its results, success is True only if every result
\* is a success, and otherwise the message is the count of successful
\* results out of the number of results.
C24_FinishedExactlyOnce ==
    /\ Len(wk.emitted) <= 1
    /\ wk.state # "done" => wk.emitted = <<>>
    /\ wk.state = "done" =>
           /\ Len(wk.emitted) = 1
           /\ wk.escaped = "-"
           /\ (wk.operation = "bulk_annotate" /\ pc = "done") =>
                  LET good == {n \in 1..Len(results) : results[n][2]} IN
                  IF wk.emitted[1][1]
                  THEN Cardinality(good) = Len(results)
                  ELSE wk.emitted[1][2] =
                           <<"Completed: ", IntStr(Cardinality(good)), "/",
                             IntStr(Len(results)), " successful">>

\* C24's case: a bulk run over three charts of which one failed has emitted
\* (False, "Completed: 2/3 successful").
C24_Witness ==
    /\ wk.state = "done"
    /\ wk.operation = "bulk_annotate"
    /\ Len(chart_ids) = 3
    /\ ~broke
    /\ wk.emitted = << <<FALSE, <<"Completed: ", "2", "/", "3", " successful">> >> >>

(***************************************************************************)
(* The requests of the application: the only client it constructs is       *)
(* ConfigTab.test_connection's, the worker of the test sends the GET, and  *)
(* after configValid(True) the main window's worker runs bulk_annotate on  *)
(* the same client.                                                        *)
(***************************************************************************)
KeyEnvironments ==
    {env \in Environments :
        /\ env.AMPLITUDE_PROJECT_ID = PyStr(<<"4", "2">>)
        /\ env.AMPLITUDE_REGION = None}
Dotenvs ==
    {NoDotenv} \cup
    [exists : {TRUE}, AMPLITUDE_API_KEY : {NotInDotenv, "", "ak_file"},
     AMPLITUDE_SECRET_KEY : {NotInDotenv, "", "sk_file"}]
KeyOutcomes == {Response(200, B_CREATED), Response(401, "denied")}
KeyChartIdLists == {<<"abc123">>}

\* APIWorker.run for "test_connection", on the client of the tab.
worker_test_connection(o) ==
    /\ cpc = "testing"
    /\ cpc' = "tested"
    /\ test_connection(o)
    /\ UNCHANGED <<environ, config_file, config, form, prefs_written>>

\* MainWindow.apply_annotations up to the worker's call of bulk_annotate,
\* the selected chart IDs and the label taken as present.
apply_annotations_call(ids, annotation_date, label, details) ==
    /\ cpc = "form"
    /\ form.config_valid
    /\ HasSelectedProjectId(form, environ)
    /\ bulk_annotate_call(
           IF EnvProjectIdTruthy(environ) /\ isdigit(environ.AMPLITUDE_PROJECT_ID.val)
           THEN int(environ.AMPLITUDE_PROJECT_ID.val)
           ELSE int(strip(form.project_id_input)),
           ids, annotation_date, label, details, TRUE)
    /\ UNCHANGED configVars

KeysNext ==
    \/ /\ cpc = "start"
       /\ \E env \in KeyEnvironments : process_started(env, NoFile)
       /\ UNCHANGED <<clientVars, callVars, bulkVars, appVars, retryVars, validatorVars, workerVars, selVars>>
    \/ /\ ConfigTab_load_config
       /\ UNCHANGED <<clientVars, callVars, bulkVars, appVars, retryVars, validatorVars, workerVars, selVars>>
    \/ /\ cpc \in {"form", "testing", "tested"}
       /\ pc = "idle"
       /\ \E field \in {"api_key_input", "secret_key_input"} :
              \E value \in FieldValues(field) : user_edits(field, value)
       /\ UNCHANGED <<clientVars, callVars, bulkVars, appVars, retryVars, validatorVars, workerVars, selVars>>
    \/ /\ pc = "idle"
       /\ \E dotenv \in Dotenvs : ConfigTab_test_started(dotenv)
       /\ UNCHANGED <<appVars, retryVars, validatorVars, workerVars, selVars>>
    \/ /\ \E o \in KeyOutcomes : worker_test_connection(o)
       /\ UNCHANGED <<appVars, retryVars, validatorVars, workerVars, selVars>>
    \/ /\ cpc = "tested"
       /\ ConfigTab_on_test_complete(lastResult.ok, TRUE)
       /\ UNCHANGED <<clientVars, callVars, bulkVars, appVars, retryVars, validatorVars, workerVars, selVars>>
    \/ /\ \E ids \in KeyChartIdLists, d \in Dates, l \in Labels :
              apply_annotations_call(ids, d, l, "")
       /\ UNCHANGED <<appVars, retryVars, validatorVars, workerVars, selVars>>
    \/ /\ \E o \in KeyOutcomes : bulk_annotate_step(o, FALSE)
       /\ UNCHANGED otherVars
    \/ bulk_annotate_return /\ UNCHANGED otherVars
    \/ results_consumed /\ UNCHANGED otherVars

SpecKeys == Init /\ [][KeysNext]_vars

C26_CredentialsAndHostFixed ==
    [][client.made /\ lastCall' # "__init__" =>
          /\ client' = client
          /\ client.base_url = BaseUrlFor(client.region)
          /\ client.auth = AuthHeader(client.api_key, client.secret_key)
          /\ lastRequest'.method # "none" =>
                 /\ lastRequest'.auth = client.auth
                 /\ lastRequest'.url = urljoin(client.base_url, API_ANNOTATIONS_ENDPOINT)]_vars

\* A client of the EU region after a connection test, a direct
\* create_annotation and a bulk run of two charts, the last request being
\* the second chart's.
C26_Witness ==
    /\ client.made
    /\ client.region = "EU"
    /\ pc = "done"
    /\ Len(results) = 2
    /\ lastCall = "create_annotation"
    /\ lastRequest.method = "POST"
    /\ lastRequest.auth = AuthHeader("ak_1", "sk_1")
    /\ lastRequest.url = urljoin(API_BASE_URL_EU, API_ANNOTATIONS_ENDPOINT)

\* C27: at every point of a bulk run results holds one entry per chart
\* processed so far, and never more entries than chart_ids has, whatever the
\* progress callback does.
C27_OneResultPerChart ==
    pc \in {"loop", "done"} =>
        /\ Len(results) = i
        /\ Len(results) <= Len(chart_ids)

\* C28: the request bulk_annotate sent for chart_ids[i] has the parameter
\* chart_id with that element as its value, whatever string the element is.
C28_BulkRequestsCarryChartId ==
    pc = "loop" /\ i > 0 =>
        /\ lastRequest.method = "POST"
        /\ "chart_id" \in DOMAIN lastRequest.params
        /\ lastRequest.params["chart_id"] = chart_ids[i]

\* C29: in a bulk run over pairwise distinct chart IDs the server receives
\* at most one POST for the chart being processed and creates at most one
\* annotation for it, whatever the attempts end in.
C29_AtMostOnePostPerChart ==
    (/\ pc \in {"loop", "done"}
     /\ \A m, n \in 1..Len(chart_ids) : m # n => chart_ids[m] # chart_ids[n])
        => /\ server.received <= 1
           /\ server.created <= 1

(***************************************************************************)
(* The selection step: the connection test of the configuration tab hands  *)
(* the client and the project ID to the selection tab, the user types      *)
(* chart IDs or URLs and clicks "Validate Chart IDs".                      *)
(***************************************************************************)
S_abc123 == <<"a", "b", "c", "1", "2", "3">>
SelectionTexts ==
    {<<>>, <<" ">>, S_ab1, S_x, S_example_url,
     S_ab1 \o <<"\n">> \o S_abc123,
     S_ab1 \o <<"\n", "\n">> \o S_x,
     S_ab1 \o <<",", " ">> \o S_abc123 \o <<"\n">> \o S_example_url}

\* configValid(valid) reaches MainWindow.on_config_valid, which passes the
\* client and the project ID to the selection tab when valid.
on_config_valid(s, valid, project_id) ==
    IF valid THEN [s EXCEPT !.api_client = TRUE, !.project_id = project_id] ELSE s

\* The user edits the text of chart_input (tab 1 is enabled).
chart_input_edited(text) ==
    /\ form.config_valid
    /\ text # sel.chart_input
    /\ sel' = on_text_changed(sel, text)

\* The user clicks "Validate Chart IDs".
parse_input(exists) ==
    /\ form.config_valid
    /\ sel' = parse_input_result(sel, exists)

SelectionNext ==
    \/ /\ cpc = "start"
       /\ \E env \in KeyEnvironments : process_started(env, NoFile)
       /\ UNCHANGED <<clientVars, callVars, bulkVars, appVars, retryVars, validatorVars, workerVars, selVars>>
    \/ /\ ConfigTab_load_config
       /\ UNCHANGED <<clientVars, callVars, bulkVars, appVars, retryVars, validatorVars, workerVars, selVars>>
    \/ /\ cpc \in {"form", "testing", "tested"}
       /\ \E field \in {"api_key_input", "secret_key_input"} :
              \E value \in FieldValues(field) : user_edits(field, value)
       /\ UNCHANGED <<clientVars, callVars, bulkVars, appVars, retryVars, validatorVars, workerVars, selVars>>
    \/ /\ ConfigTab_test_started(NoDotenv)
       /\ UNCHANGED <<appVars, retryVars, validatorVars, workerVars, selVars>>
    \/ /\ \E o \in KeyOutcomes : worker_test_connection(o)
       /\ UNCHANGED <<appVars, retryVars, validatorVars, workerVars, selVars>>
    \/ /\ cpc = "tested"
       /\ ConfigTab_on_test_complete(lastResult.ok, TRUE)
       /\ sel' = on_config_valid(sel, form'.config_valid,
                     IF EnvProjectIdTruthy(environ)
                        /\ isdigit(environ.AMPLITUDE_PROJECT_ID.val)
                     THEN int(environ.AMPLITUDE_PROJECT_ID.val)
                     ELSE int(strip(form.project_id_input)))
       /\ UNCHANGED <<clientVars, callVars, bulkVars, appVars, retryVars, validatorVars, workerVars>>
    \/ /\ \E text \in SelectionTexts : chart_input_edited(text)
       /\ UNCHANGED <<clientVars, callVars, bulkVars, appVars, retryVars, validatorVars, configVars, workerVars>>
    \/ /\ \E exists \in BOOLEAN : parse_input(exists)
       /\ UNCHANGED <<clientVars, callVars, bulkVars, appVars, retryVars, validatorVars, configVars, workerVars>>

SpecSelection == Init /\ [][SelectionNext]_vars

\* Every line of the text that is not blank holds chart IDs or a chart URL
\* of valid format, and there is such a line.
RECURSIVE AllWellFormed(_)
AllWellFormed(lines) ==
    \/ lines = <<>>
    \/ /\ strip(Head(lines)) = <<>> \/ FormatLine(Head(lines)).ids # <<>>
       /\ AllWellFormed(Tail(lines))

WellFormedInput(text) ==
    /\ strip(text) # <<>>
    /\ AllWellFormed(split_newline(strip(text)))

\* C30: with the client and the project ID of a successful connection test,
\* parse_input on a text whose non-blank lines are all well-formed ends with
\* valid_chart_ids non-empty, selectionComplete(True) emitted and the
\* annotation tab enabled, and not in the validation-error state.
C30_WellFormedInputIsSelected ==
    (/\ sel.last = "parse_input"
     /\ sel.api_client
     /\ sel.project_id # 0
     /\ WellFormedInput(sel.chart_input))
        => /\ sel.status # "Validation error"
           /\ sel.valid_chart_ids # <<>>
           /\ sel.selectionComplete = "True"
           /\ sel.tab2

\* What holds instead: the selection tab never has a chart ID, never emits
\* selectionComplete(True), and tab 2 of the main window stays disabled.
SelectionNeverCompletes ==
    /\ sel.valid_chart_ids = <<>>
    /\ sel.selectionComplete # "True"
    /\ ~sel.tab2

=============================================================================
